---- MODULE Spec2Model ----
(***************************************************************************)
(* A model of the ray-tracing core of stevenwinfield/raytrace: the         *)
(* primitives' intersection tests (primitive.py), the CSG combinators      *)
(* (raytrace/csg.py), the scene and its object tree (scene.py) and the     *)
(* renderer (renderer.py).                                                 *)
(*                                                                         *)
(* Numbers.  The program computes in floating point; the model computes in *)
(* integers on inputs chosen so that every quotient and square root the    *)
(* code takes is exact (the Exact... predicates below select them).        *)
(*   - a point or a length is an integer;                                  *)
(*   - a unit vector (a ray's direction, a normal) is an integer triple in *)
(*     units of 1/DirDen: <<3, 4, 0>> is (0.6, 0.8, 0.0);                  *)
(*   - float("inf") is INFINITY, and Python's None is None (a distance) or *)
(*     NoneV (a vector).                                                   *)
(***************************************************************************)
EXTENDS Integers, Sequences, FiniteSets, TLC

VARIABLES
    pc,        \* position of the operation under way
    solid,     \* the primitive or CSG node under test
    ray,       \* the ray being cast
    result,    \* what the last operation returned
    hits,      \* the hit points reported while following a ray
    scene,     \* the Scene: its objects, lights and tree
    render     \* Renderer.render's loop state and RenderResult

vars == <<pc, solid, ray, result, hits, scene, render>>

----------------------------------------------------------------------------
(* Numbers *)

\* The denominator of a unit vector's components.
DirDen == 5

\* float("inf") of constants.py.
INFINITY == 1000000000

\* Python's None where a distance is expected.
None == 0 - (INFINITY + 1)

\* Python's None where a vector is expected.
NoneV == <<None, None, None>>

\* None where an object is expected (a solid, a box, a material, a tree).
NoneType == [kind |-> "None"]

\* An exception, where a call raises instead of returning.
Raised(type) == [kind |-> "raised", type |-> type]

IsRaised(v) == v.kind = "raised"

\* INTERSECTION_TOLERANCE of constants.py in units of 1/DirDen^2: smaller
\* than every non-zero product of two unit vectors of the model.
INTERSECTION_TOLERANCE == 1

Abs(a) == IF a < 0 THEN 0 - a ELSE a

Min2(a, b) == IF a < b THEN a ELSE b

Max2(a, b) == IF a > b THEN a ELSE b

\* Whether b divides a exactly.
Divides(b, a) == b /= 0 /\ (a % Abs(b)) = 0

\* a / b for an exact quotient, with the sign rule of true division.
Quot(a, b) ==
    IF (a < 0) = (b < 0) THEN Abs(a) \div Abs(b)
    ELSE 0 - (Abs(a) \div Abs(b))

RECURSIVE SqrtBetween(_, _, _)
\* The largest k in lo..hi with k * k <= n.
SqrtBetween(n, lo, hi) ==
    IF lo >= hi THEN lo
    ELSE LET mid == (lo + hi + 1) \div 2
         IN IF mid * mid <= n THEN SqrtBetween(n, mid, hi)
            ELSE SqrtBetween(n, lo, mid - 1)

\* math.sqrt on a non-negative number (its floor; exact on perfect squares).
Sqrt(n) == SqrtBetween(n, 0, 40000)

IsSquare(n) == n >= 0 /\ Sqrt(n) * Sqrt(n) = n

----------------------------------------------------------------------------
(* vector.py *)

Vector(x, y, z) == <<x, y, z>>

VAdd(a, b) == <<a[1] + b[1], a[2] + b[2], a[3] + b[3]>>

VSub(a, b) == <<a[1] - b[1], a[2] - b[2], a[3] - b[3]>>

VNeg(a) == <<0 - a[1], 0 - a[2], 0 - a[3]>>

VMul(a, k) == <<a[1] * k, a[2] * k, a[3] * k>>

VDiv(a, k) == <<Quot(a[1], k), Quot(a[2], k), Quot(a[3], k)>>

\* Vector.__matmul__: the dot product.
Dot(a, b) == a[1] * b[1] + a[2] * b[2] + a[3] * b[3]

norm2(a) == Dot(a, a)

norm(a) == Sqrt(norm2(a))

\* Vector.normalized: a / a.norm(), as a unit vector in units of 1/DirDen.
normalized(a) == VDiv(VMul(a, DirDen), norm(a))

ExactNormalized(a) ==
    /\ norm2(a) > 0
    /\ IsSquare(norm2(a))
    /\ \A i \in 1..3 : Divides(norm(a), a[i] * DirDen)

\* self with its component along the unit vector normal removed, not
\* negated: the reflection with the factor 2.0 left out.
reflectedHalfWay(self, normal) ==
    VSub(self, VDiv(VMul(normal, Dot(self, normal)), DirDen * DirDen))

\* Vector.reflected, for a vector self and a unit normal:
\* self - 2.0 * (self @ normal) * normal.
reflected(self, normal) ==
    VSub(self, VDiv(VMul(normal, 2 * Dot(self, normal)), DirDen * DirDen))

\* Vector.project_out, of a point or offset self along the unit vector other:
\* self - (self @ unit) * unit.
project_out(self, other) ==
    VSub(self, VDiv(VMul(other, Dot(self, other)), DirDen * DirDen))

----------------------------------------------------------------------------
(* ray.py *)

\* Ray.__init__: the direction is normalized.
Ray(source, direction, min_distance, max_distance) ==
    [source |-> source, direction |-> normalized(direction),
     min_distance |-> min_distance, max_distance |-> max_distance]

\* Ray.point: source + distance * direction.
point(r, distance) ==
    VAdd(r.source, VDiv(VMul(r.direction, distance), DirDen))

\* Ray.__neg__: same source and bounds, opposite direction.
NegRay(r) == Ray(r.source, VNeg(r.direction), r.min_distance, r.max_distance)

\* ray.min_distance < d < ray.max_distance
InRange(r, d) == r.min_distance < d /\ d < r.max_distance

----------------------------------------------------------------------------
(* colour.py, material.py, light.py *)

\* The denominator of a colour channel, a reflectivity and an intensity:
\* 1.0 is ColDen.
ColDen == 10

Colour(red, green, blue) == <<Max2(0, red), Max2(0, green), Max2(0, blue)>>

BLACK == Colour(0, 0, 0)

WHITE == Colour(ColDen, ColDen, ColDen)

RED == Colour(ColDen, 0, 0)

\* Material.__init__: diffuse defaults to ambient, specular to WHITE.
Material(ambient, reflectivity, shinyness) ==
    [ambient |-> ambient, diffuse |-> ambient, reflectivity |-> reflectivity,
     specular |-> WHITE, shinyness |-> shinyness]

\* light.Ambient and light.Point
Ambient(colour) == [kind |-> "Ambient", colour |-> colour]

Point(position, colour, intensity) ==
    [kind |-> "Point", position |-> position, colour |-> colour,
     intensity |-> intensity]

----------------------------------------------------------------------------
(* primitive.py: the solids.  A solid is a record with a kind. *)

AxisAlignedBox(xmin, xmax, ymin, ymax, zmin, zmax, material) ==
    [kind |-> "AxisAlignedBox", min |-> Vector(xmin, ymin, zmin),
     max |-> Vector(xmax, ymax, zmax), material |-> material]

Sphere(centre, radius, material) ==
    [kind |-> "Sphere", centre |-> centre, radius |-> radius,
     material |-> material]

\* Plane.__init__: the normal is normalized.
Plane(pt, normal, material) ==
    [kind |-> "Plane", point |-> pt, normal |-> normalized(normal),
     material |-> material]

\* InfiniteCylinder.__init__: the axis direction is normalized.
InfiniteCylinder(axis_point, axis_direction, radius, material) ==
    [kind |-> "InfiniteCylinder", axis_point |-> axis_point,
     axis_direction |-> normalized(axis_direction), radius |-> radius,
     material |-> material]

\* Cylinder.__init__: axis_direction and length are derived from the ends.
Cylinder(axis_start, axis_end, radius, material) ==
    [kind |-> "Cylinder", axis_start |-> axis_start, axis_end |-> axis_end,
     axis_direction |-> normalized(VSub(axis_end, axis_start)),
     length |-> norm(VSub(axis_end, axis_start)), radius |-> radius,
     material |-> material]

\* AxisAlignedBox.infinite
InfiniteBox ==
    AxisAlignedBox(0 - INFINITY, INFINITY, 0 - INFINITY, INFINITY,
                   0 - INFINITY, INFINITY, NoneType)

\* AxisAlignedBox._tests: (index, other1, other2, normal), indices from 1.
BoxTests ==
    << <<1, 2, 3, <<DirDen, 0, 0>> >>,
       <<2, 3, 1, <<0, DirDen, 0>> >>,
       <<3, 1, 2, <<0, 0, DirDen>> >> >>

\* (plane_distance - ray.source[index]) / ray.direction[index]; a plane at
\* +-inf is at distance +-inf.
PlaneDistance(plane_distance, source_i, direction_i) ==
    IF plane_distance >= INFINITY
    THEN (IF direction_i > 0 THEN INFINITY ELSE 0 - INFINITY)
    ELSE IF plane_distance <= 0 - INFINITY
    THEN (IF direction_i > 0 THEN 0 - INFINITY ELSE INFINITY)
    ELSE Quot((plane_distance - source_i) * DirDen, direction_i)

\* min[other] <= coordinate <= max[other] of the box, along one axis.
BoxWithin(box, other, coordinate) ==
    box.min[other] <= coordinate /\ coordinate <= box.max[other]

\* The tests on one plane's intersection_distance: in the ray's range, inside
\* the face along both other axes, and nearer than the best so far.
BoxPlaneAt(box, r, test, intersection_distance, this_normal, best) ==
    IF /\ InRange(r, intersection_distance)
       /\ BoxWithin(box, test[2],
                    r.source[test[2]]
                    + Quot(intersection_distance * r.direction[test[2]],
                           DirDen))
       /\ BoxWithin(box, test[3],
                    r.source[test[3]]
                    + Quot(intersection_distance * r.direction[test[3]],
                           DirDen))
       /\ intersection_distance < best[1]
    THEN <<intersection_distance, this_normal>>
    ELSE best

\* One pass of the inner loop of AxisAlignedBox._intersection: the plane at
\* plane_distance of the pair normal to axis test[1], given the best so far.
BoxPlane(box, r, test, plane_distance, this_normal, best) ==
    BoxPlaneAt(box, r, test,
               PlaneDistance(plane_distance, r.source[test[1]],
                             r.direction[test[1]]),
               this_normal, best)

\* The two planes of one pair, in the order of the code: min then max.
BoxPair(box, r, test, best) ==
    BoxPlane(box, r, test, box.max[test[1]], test[4],
             BoxPlane(box, r, test, box.min[test[1]], VNeg(test[4]), best))

\* AxisAlignedBox._intersection.  The return statement is inside the loop
\* over the pairs of planes: the first pair the ray is not parallel to is
\* the only one tested, and the initial (INFINITY, None) is returned when
\* nothing was found.  A ray parallel to all three pairs (no unit vector
\* is) falls off the loop and returns Python's None.
AxisAlignedBox_intersection(box, r, compute_normal) ==
    IF r.direction[BoxTests[1][1]] /= 0
    THEN BoxPair(box, r, BoxTests[1], <<INFINITY, NoneV>>)
    ELSE IF r.direction[BoxTests[2][1]] /= 0
    THEN BoxPair(box, r, BoxTests[2], <<INFINITY, NoneV>>)
    ELSE IF r.direction[BoxTests[3][1]] /= 0
    THEN BoxPair(box, r, BoxTests[3], <<INFINITY, NoneV>>)
    ELSE <<None, NoneV>>

\* Whether every quotient of the box test is exact for this ray.
ExactBox(box, r) ==
    \A i \in 1..3 : \A p \in {box.min[i], box.max[i]} :
        (r.direction[i] /= 0 /\ Abs(p) < INFINITY) =>
            /\ Divides(r.direction[i], (p - r.source[i]) * DirDen)
            /\ \A j \in 1..3 :
                 Divides(DirDen,
                         PlaneDistance(p, r.source[i], r.direction[i])
                         * r.direction[j])

\* The end of Sphere._intersection: the normal at the chosen distance.
SphereHit(s, r, compute_normal, intersection_distance) ==
    <<intersection_distance,
      IF compute_normal /\ intersection_distance /= None
      THEN normalized(VSub(point(r, intersection_distance), s.centre))
      ELSE NoneV>>

\* The choice between the two roots made the other way: the farther of
\* those in the ray's range.
SphereVisibleFarthest(s, r, compute_normal, distance1, distance2) ==
    SphereHit(s, r, compute_normal,
              IF InRange(r, distance1)
              THEN (IF InRange(r, distance2) THEN Max2(distance1, distance2)
                    ELSE distance1)
              ELSE IF InRange(r, distance2) THEN distance2 ELSE None)

\* The choice between the two roots: the nearer of those in the ray's range.
SphereVisible(s, r, compute_normal, distance1, distance2) ==
    SphereHit(s, r, compute_normal,
              IF InRange(r, distance1)
              THEN (IF InRange(r, distance2) THEN Min2(distance1, distance2)
                    ELSE distance1)
              ELSE IF InRange(r, distance2) THEN distance2 ELSE None)

\* The two roots projection +- sqrt(discriminant), or no intersection when
\* the discriminant is negative.
SphereRoots(s, r, compute_normal, P, D) ==
    IF D < 0 THEN <<None, NoneV>>
    ELSE SphereVisible(s, r, compute_normal,
                       Quot(P + Sqrt(D), DirDen), Quot(P - Sqrt(D), DirDen))

\* The discriminant projection^2 - diff2 + radius^2.
SphereDiscriminant(s, r, compute_normal, diff, P) ==
    SphereRoots(s, r, compute_normal, P,
                P * P - DirDen * DirDen * norm2(diff)
                + DirDen * DirDen * s.radius * s.radius)

\* Sphere._intersection.  With P = DirDen * projection and
\* D = DirDen^2 * discriminant.
Sphere_intersection(s, r, compute_normal) ==
    SphereDiscriminant(s, r, compute_normal, VSub(s.centre, r.source),
                       Dot(r.direction, VSub(s.centre, r.source)))

ExactSphere(s, r) ==
    LET diff == VSub(s.centre, r.source)
        P == Dot(r.direction, diff)
        D == P * P - DirDen * DirDen * norm2(diff)
             + DirDen * DirDen * s.radius * s.radius
    IN  D >= 0 =>
          /\ IsSquare(D)
          /\ Divides(DirDen, P + Sqrt(D))
          /\ Divides(DirDen, P - Sqrt(D))
          /\ \A d \in {Quot(P + Sqrt(D), DirDen), Quot(P - Sqrt(D), DirDen)} :
               /\ \A i \in 1..3 : Divides(DirDen, d * r.direction[i])
               /\ point(r, d) /= s.centre
               /\ ExactNormalized(VSub(point(r, d), s.centre))

\* Plane._intersection.  proj is in units of 1/DirDen^2; the plane's normal
\* is returned whether or not there is a hit.
Plane_intersection(p, r, compute_normal) ==
    LET proj == Dot(r.direction, p.normal)
        distance ==
            IF Abs(proj) < INTERSECTION_TOLERANCE THEN None
            ELSE LET d == Quot(Dot(VSub(p.point, r.source), p.normal)
                               * DirDen, proj)
                 IN IF InRange(r, d) THEN d ELSE None
    IN  <<distance, p.normal>>

ExactPlane(p, r) ==
    LET proj == Dot(r.direction, p.normal)
    IN  /\ Divides(DirDen, Dot(p.point, p.normal))
        /\ proj /= 0 =>
             Divides(proj, Dot(VSub(p.point, r.source), p.normal) * DirDen)

\* The roots with a discriminant of zero taken for no roots.
CylinderLambdasPositive(d, diff, A, B, D) ==
    IF A = 0 \/ D <= 0
    THEN [roots |-> FALSE, d |-> d, diff |-> diff,
          lambda1 |-> None, lambda2 |-> None]
    ELSE [roots |-> TRUE, d |-> d, diff |-> diff,
          lambda1 |-> Quot((Sqrt(D) - B) * DirDen, A),
          lambda2 |-> Quot((0 - Sqrt(D) - B) * DirDen, A)]

\* The two roots of the cylinders' quadratic, or no roots.
CylinderLambdas(d, diff, A, B, D) ==
    IF A = 0 \/ D < 0
    THEN [roots |-> FALSE, d |-> d, diff |-> diff,
          lambda1 |-> None, lambda2 |-> None]
    ELSE [roots |-> TRUE, d |-> d, diff |-> diff,
          lambda1 |-> Quot((Sqrt(D) - B) * DirDen, A),
          lambda2 |-> Quot((0 - Sqrt(D) - B) * DirDen, A)]

\* The coefficients a, b_2 and c of the quadratic and its discriminant.
CylinderQuadratic(d, diff, radius) ==
    CylinderLambdas(d, diff, norm2(d), Dot(d, diff),
                    Dot(d, diff) * Dot(d, diff)
                    - norm2(d) * (norm2(diff) - radius * radius))

\* The quadratic of InfiniteCylinder._intersection and
\* Cylinder._intersection: d, diff and the two roots, or no roots.  With
\* A = DirDen^2 * a, B = DirDen * b_2 and D = DirDen^2 * discriminant.
CylinderRoots(axis_point, axis_direction, radius, r) ==
    CylinderQuadratic(project_out(r.direction, axis_direction),
                      project_out(VSub(r.source, axis_point), axis_direction),
                      radius)

\* (diff + distance * d).normalized()
CylinderNormal(q, distance) ==
    normalized(VAdd(q.diff, VDiv(VMul(q.d, distance), DirDen)))

\* Whether the roots, the points they give and their normals are exact.
ExactCylinderLambdas(r, d, diff, A, B, D) ==
    (A /= 0 /\ D >= 0) =>
        /\ IsSquare(D)
        /\ \A root \in {(Sqrt(D) - B) * DirDen, (0 - Sqrt(D) - B) * DirDen} :
             /\ Divides(A, root)
             /\ \A i \in 1..3 :
                  /\ Divides(DirDen, Quot(root, A) * d[i])
                  /\ Divides(DirDen, Quot(root, A) * r.direction[i])
             /\ ExactNormalized(
                    VAdd(diff, VDiv(VMul(d, Quot(root, A)), DirDen)))

ExactCylinderQuadratic(r, d, diff, radius) ==
    ExactCylinderLambdas(r, d, diff, norm2(d), Dot(d, diff),
                         Dot(d, diff) * Dot(d, diff)
                         - norm2(d) * (norm2(diff) - radius * radius))

ExactCylinderRoots(axis_point, axis_direction, radius, r) ==
    /\ \A i \in 1..3 :
         /\ Divides(DirDen * DirDen,
                    axis_direction[i] * Dot(r.direction, axis_direction))
         /\ Divides(DirDen * DirDen,
                    axis_direction[i]
                    * Dot(VSub(r.source, axis_point), axis_direction))
    /\ ExactCylinderQuadratic(
           r, project_out(r.direction, axis_direction),
           project_out(VSub(r.source, axis_point), axis_direction), radius)

\* The end of both cylinders' _intersection: the normal at the distance.
CylinderHit(q, compute_normal, distance) ==
    IF ~q.roots \/ distance = None THEN <<None, NoneV>>
    ELSE <<distance,
           IF compute_normal THEN CylinderNormal(q, distance) ELSE NoneV>>

\* The infinite cylinder's choice between the roots.
InfiniteCylinderNearest(q, r, compute_normal) ==
    CylinderHit(q, compute_normal,
                IF ~q.roots THEN None
                ELSE IF q.lambda1 < q.lambda2 /\ InRange(r, q.lambda1)
                     THEN q.lambda1
                     ELSE IF InRange(r, q.lambda2) THEN q.lambda2 ELSE None)

\* InfiniteCylinder._intersection.
InfiniteCylinder_intersection(cyl, r, compute_normal) ==
    InfiniteCylinderNearest(
        CylinderRoots(cyl.axis_point, cyl.axis_direction, cyl.radius, r),
        r, compute_normal)

\* (intersection_point - axis_start) @ axis_direction within [0, length]
AlongAxis(cyl, r, distance) ==
    LET along_axis ==
            Quot(Dot(VSub(point(r, distance), cyl.axis_start),
                     cyl.axis_direction), DirDen)
    IN  0 <= along_axis /\ along_axis <= cyl.length

\* The second root is tried when the first is out of range or off the
\* axis's extent.
CylinderSecond(cyl, r, compute_normal, q, lambda_max, first) ==
    CylinderHit(q, compute_normal,
                IF first = None /\ InRange(r, lambda_max)
                THEN (IF AlongAxis(cyl, r, lambda_max) THEN lambda_max
                      ELSE None)
                ELSE first)

\* The first root is taken when in range and within the axis's extent.
CylinderFirst(cyl, r, compute_normal, q, lambda_min, lambda_max) ==
    CylinderSecond(cyl, r, compute_normal, q, lambda_max,
                   IF InRange(r, lambda_min) /\ AlongAxis(cyl, r, lambda_min)
                   THEN lambda_min ELSE None)

\* lambda_min, lambda_max = sorted roots
CylinderSorted(cyl, r, compute_normal, q) ==
    IF ~q.roots THEN <<None, NoneV>>
    ELSE CylinderFirst(cyl, r, compute_normal, q,
                       Min2(q.lambda1, q.lambda2), Max2(q.lambda1, q.lambda2))

\* Cylinder._intersection.
Cylinder_intersection(cyl, r, compute_normal) ==
    CylinderSorted(cyl, r, compute_normal,
                   CylinderRoots(cyl.axis_start, cyl.axis_direction,
                                 cyl.radius, r))

----------------------------------------------------------------------------
(* raytrace/csg.py *)

\* Intersection.__init__
Intersection(object1, object2, material) ==
    [kind |-> "Intersection", object1 |-> object1, object2 |-> object2,
     material |-> material]

\* Inverse.__init__; material is proxied to the child.
Inverse(object) ==
    [kind |-> "Inverse", object |-> object, material |-> object.material]

\* Difference: Intersection(object1, Inverse(object2)).
Difference(object1, object2, material) ==
    Intersection(object1, Inverse(object2), material)

\* Python's (d or INFINITY): None and 0.0 are falsy.
OrInfinity(d) == IF d = None \/ d = 0 THEN INFINITY ELSE d

\* The test of csg.py lines 43-48 (and 53-58): whether the ray's source is
\* inside a child, from the child's forward and backward casts.
Inside(r, back_ray, fwd, back) ==
    \/ /\ fwd[1] /= None
       /\ InRange(r, fwd[1])
       /\ Dot(fwd[2], r.direction) > 0
    \/ /\ back[1] /= None
       /\ InRange(back_ray, back[1])
       /\ Dot(back[2], r.direction) < 0

\* Lines 60-91 of Intersection._intersection: the result, from the two
\* children's forward casts and the two classifications.
IntersectionSelectNoOrder(fwd1, fwd2, inside1, inside2) ==
    IF inside1 THEN fwd2
    ELSE IF inside2 THEN fwd1
    ELSE IF fwd1[1] = None \/ fwd2[1] = None THEN <<None, NoneV>>
    ELSE IF OrInfinity(fwd1[1]) < OrInfinity(fwd2[1]) THEN fwd2 ELSE fwd1

IntersectionSelectSwapped(fwd1, fwd2, inside1, inside2) ==
    LET first_intersection ==
            IF OrInfinity(fwd1[1]) < OrInfinity(fwd2[1]) THEN fwd1 ELSE fwd2
        second_intersection ==
            IF OrInfinity(fwd1[1]) < OrInfinity(fwd2[1]) THEN fwd2 ELSE fwd1
    IN  IF inside1
        THEN (IF inside2 THEN first_intersection ELSE fwd1)
        ELSE IF inside2 THEN fwd2
        ELSE IF fwd1[1] = None \/ fwd2[1] = None THEN <<None, NoneV>>
        ELSE second_intersection

IntersectionSelect(fwd1, fwd2, inside1, inside2) ==
    LET first_intersection ==
            IF OrInfinity(fwd1[1]) < OrInfinity(fwd2[1]) THEN fwd1 ELSE fwd2
        second_intersection ==
            IF OrInfinity(fwd1[1]) < OrInfinity(fwd2[1]) THEN fwd2 ELSE fwd1
    IN  IF inside1
        THEN (IF inside2 THEN first_intersection ELSE fwd2)
        ELSE IF inside2 THEN fwd1
        ELSE IF fwd1[1] = None \/ fwd2[1] = None THEN <<None, NoneV>>
        ELSE second_intersection

RECURSIVE intersection(_, _, _)

\* The record of the four casts and the two classifications.
CastsOf(r, back_ray, fwd1, back1, fwd2, back2) ==
    [fwd1 |-> fwd1, back1 |-> back1, fwd2 |-> fwd2, back2 |-> back2,
     inside1 |-> Inside(r, back_ray, fwd1, back1),
     inside2 |-> Inside(r, back_ray, fwd2, back2)]

\* The casts along the ray and along back_ray = -ray.
CastsAlong(obj, r, back_ray) ==
    CastsOf(r, back_ray,
            intersection(obj.object1, r, TRUE),
            intersection(obj.object1, back_ray, TRUE),
            intersection(obj.object2, r, TRUE),
            intersection(obj.object2, back_ray, TRUE))

\* Lines 38-58 of Intersection._intersection: the four casts and the two
\* classifications.
IntersectionCasts(obj, r) == CastsAlong(obj, r, NegRay(r))

\* The result chosen from the casts.
SelectFrom(c) == IntersectionSelect(c.fwd1, c.fwd2, c.inside1, c.inside2)

\* Intersection._intersection
Intersection_intersection(obj, r, compute_normal) ==
    SelectFrom(IntersectionCasts(obj, r))

\* The child's result with its normal negated.
Inverted(res) == <<res[1], IF res[2] /= NoneV THEN VNeg(res[2]) ELSE NoneV>>

\* Inverse._intersection: the child's distance, its normal negated.
Inverse_intersection(obj, r, compute_normal) ==
    Inverted(intersection(obj.object, r, compute_normal))

\* Primitive.intersection: the solid's own _intersection.
intersection(obj, r, compute_normal) ==
    CASE obj.kind = "AxisAlignedBox" ->
            AxisAlignedBox_intersection(obj, r, compute_normal)
      [] obj.kind = "Sphere" -> Sphere_intersection(obj, r, compute_normal)
      [] obj.kind = "Plane" -> Plane_intersection(obj, r, compute_normal)
      [] obj.kind = "InfiniteCylinder" ->
            InfiniteCylinder_intersection(obj, r, compute_normal)
      [] obj.kind = "Cylinder" -> Cylinder_intersection(obj, r, compute_normal)
      [] obj.kind = "Intersection" ->
            Intersection_intersection(obj, r, compute_normal)
      [] obj.kind = "Inverse" -> Inverse_intersection(obj, r, compute_normal)

RECURSIVE Exact(_, _)
\* Whether the model's integer arithmetic is exact for this solid and ray.
Exact(obj, r) ==
    CASE obj.kind = "AxisAlignedBox" -> ExactBox(obj, r)
      [] obj.kind = "Sphere" -> ExactSphere(obj, r)
      [] obj.kind = "Plane" -> ExactPlane(obj, r)
      [] obj.kind = "InfiniteCylinder" ->
            ExactCylinderRoots(obj.axis_point, obj.axis_direction,
                               obj.radius, r)
      [] obj.kind = "Cylinder" ->
            ExactCylinderRoots(obj.axis_start, obj.axis_direction,
                               obj.radius, r)
      [] obj.kind = "Intersection" ->
            /\ Exact(obj.object1, r) /\ Exact(obj.object1, NegRay(r))
            /\ Exact(obj.object2, r) /\ Exact(obj.object2, NegRay(r))
      [] obj.kind = "Inverse" -> Exact(obj.object, r)

----------------------------------------------------------------------------
(* primitive.py and raytrace/csg.py: bounding boxes *)

\* AxisAlignedBox.combine.  A receiver or an argument that is None has no
\* xmin: AttributeError.  An exception raised while the operands were
\* computed propagates.
combine(self, other) ==
    IF IsRaised(self) THEN self
    ELSE IF IsRaised(other) THEN other
    ELSE IF self.kind = "None" \/ other.kind = "None"
    THEN Raised("AttributeError")
    ELSE AxisAlignedBox(Min2(self.min[1], other.min[1]),
                        Max2(self.max[1], other.max[1]),
                        Min2(self.min[2], other.min[2]),
                        Max2(self.max[2], other.max[2]),
                        Min2(self.min[3], other.min[3]),
                        Max2(self.max[3], other.max[3]), NoneType)

\* AxisAlignedBox.overlap: None when the boxes do not overlap.
overlap(self, other) ==
    IF IsRaised(self) THEN self
    ELSE IF IsRaised(other) THEN other
    ELSE IF self.kind = "None" \/ other.kind = "None"
    THEN Raised("AttributeError")
    ELSE LET xmin == Max2(self.min[1], other.min[1])
             xmax == Min2(self.max[1], other.max[1])
             ymin == Max2(self.min[2], other.min[2])
             ymax == Min2(self.max[2], other.max[2])
             zmin == Max2(self.min[3], other.min[3])
             zmax == Min2(self.max[3], other.max[3])
         IN  IF xmax < xmin \/ ymax < ymin \/ zmax < zmin
             THEN NoneType
             ELSE AxisAlignedBox(xmin, xmax, ymin, ymax, zmin, zmax,
                                 NoneType)

\* AxisAlignedBox.volume; a box with an infinite side has volume inf.
volume(self) ==
    IF \E i \in 1..3 : self.min[i] <= 0 - INFINITY \/ self.max[i] >= INFINITY
    THEN INFINITY
    ELSE (self.max[1] - self.min[1]) * (self.max[2] - self.min[2])
         * (self.max[3] - self.min[3])

\* The box of a sphere of this radius about this centre (Sphere._bounding_box
\* and the two end boxes of Cylinder._bounding_box).
BoxAbout(centre, radius) ==
    AxisAlignedBox(centre[1] - radius, centre[1] + radius,
                   centre[2] - radius, centre[2] + radius,
                   centre[3] - radius, centre[3] + radius, NoneType)

RECURSIVE bounding_box(_)

\* The _bounding_box method of each class.
Primitive_bounding_box(obj) ==
    CASE obj.kind = "AxisAlignedBox" -> obj
      [] obj.kind = "Sphere" -> BoxAbout(obj.centre, obj.radius)
      [] obj.kind = "Plane" -> InfiniteBox
      [] obj.kind = "InfiniteCylinder" -> InfiniteBox
      [] obj.kind = "Cylinder" ->
            combine(BoxAbout(obj.axis_start, obj.radius),
                    BoxAbout(obj.axis_end, obj.radius))
      [] obj.kind = "Intersection" ->
            overlap(bounding_box(obj.object1), bounding_box(obj.object2))
      [] obj.kind = "Inverse" -> bounding_box(obj.object)

\* Primitive.bounding_box and ObjectGroup.bounding_box.  The value the
\* cache holds is the value _bounding_box returns, so the call is modelled
\* by its value.  Inverse.__init__ does not call Primitive.__init__: an
\* Inverse has no _cached_bounding_box attribute and the read of it raises
\* AttributeError.
bounding_box(obj) ==
    IF obj.kind = "ObjectGroup" THEN obj.bounding
    ELSE IF obj.kind = "Inverse" THEN Raised("AttributeError")
    ELSE Primitive_bounding_box(obj)

\* The same calls with the cache written out.  The solids of a CSG tree are
\* named by their paths from the root (1 for object1 or the child of an
\* Inverse, 2 for object2).  A box is a value and the number of the object
\* that holds it: 0 for the solid itself and for None, the next number for
\* every AxisAlignedBox a call constructs.
Boxed(box, id) == [box |-> box, id |-> id]

\* The state the calls act on: the _cached_bounding_box of each solid that
\* has one, how often each solid's _bounding_box was called, the number of
\* the next object, and what the last call returned or raised.
BoxState(paths) ==
    [cache |-> [p \in paths |-> Boxed(NoneType, 0)],
     calls |-> [p \in paths |-> 0],
     next |-> 1,
     value |-> Boxed(NoneType, 0)]

RECURSIVE Paths(_)

Paths(obj) ==
    {<<>>}
    \cup (IF obj.kind = "Intersection"
          THEN {<<1>> \o p : p \in Paths(obj.object1)}
                 \cup {<<2>> \o p : p \in Paths(obj.object2)}
          ELSE IF obj.kind = "Inverse"
          THEN {<<1>> \o p : p \in Paths(obj.object)}
          ELSE {})

RECURSIVE SolidAt(_, _)

SolidAt(obj, path) ==
    IF path = <<>> THEN obj
    ELSE IF obj.kind = "Inverse" THEN SolidAt(obj.object, Tail(path))
    ELSE IF Head(path) = 1 THEN SolidAt(obj.object1, Tail(path))
    ELSE SolidAt(obj.object2, Tail(path))

\* A call that returns value, or raises it.
Gives(st, value) == [st EXCEPT !.value = value]

\* A call that returns an AxisAlignedBox it constructs.
Constructs(st, box) ==
    [st EXCEPT !.value = Boxed(box, st.next), !.next = @ + 1]

\* box1.overlap(box2): a new box, None or an exception.
Overlaps(st, box) ==
    IF IsRaised(box) \/ box = NoneType THEN Gives(st, Boxed(box, 0))
    ELSE Constructs(st, box)

\* Intersection._bounding_box after object2.bounding_box()
OverlapSecond(box1, st) ==
    IF IsRaised(st.value.box) THEN st
    ELSE Overlaps(st, overlap(box1.box, st.value.box))

RECURSIVE CallBoundingBox(_, _, _)

\* Intersection._bounding_box after object1.bounding_box()
OverlapFirst(st, obj, path) ==
    IF IsRaised(st.value.box) THEN st
    ELSE OverlapSecond(st.value,
                       CallBoundingBox(st, obj.object2, path \o <<2>>))

\* self._bounding_box() of the solid at path, counted.
Call_bounding_box(st, obj, path) ==
    CASE obj.kind = "AxisAlignedBox" -> Gives(st, Boxed(obj, 0))
      [] obj.kind \in {"Sphere", "Plane", "InfiniteCylinder", "Cylinder"} ->
            Constructs(st, Primitive_bounding_box(obj))
      [] obj.kind = "Intersection" ->
            OverlapFirst(CallBoundingBox(st, obj.object1, path \o <<1>>),
                         obj, path)
      [] obj.kind = "Inverse" ->
            CallBoundingBox(st, obj.object, path \o <<1>>)

\* self._cached_bounding_box = ...: not reached when the call raised.
Cached(st, path) ==
    IF IsRaised(st.value.box) THEN st
    ELSE [st EXCEPT !.cache[path] = st.value]

\* Primitive.bounding_box of the solid at path.  The test is of the truth
\* of the cached value: None is false, an AxisAlignedBox is true.  An
\* Inverse has no _cached_bounding_box to read.
CallBoundingBox(st, obj, path) ==
    IF obj.kind = "Inverse" THEN Gives(st, Boxed(Raised("AttributeError"), 0))
    ELSE IF st.cache[path].box /= NoneType THEN Gives(st, st.cache[path])
    ELSE Cached(Call_bounding_box([st EXCEPT !.calls[path] = @ + 1],
                                  obj, path),
                path)

----------------------------------------------------------------------------
(* scene.py *)

\* The value of a call: what it returned (object, distance, normal), or
\* the type of the exception it raised.
Returned(obj, distance, normal) ==
    [called |-> TRUE, raised |-> "None", obj |-> obj, distance |-> distance,
     normal |-> normal]

Raises(type) ==
    [called |-> TRUE, raised |-> type, obj |-> NoneType, distance |-> None,
     normal |-> NoneV]

NotCalled ==
    [called |-> FALSE, raised |-> "None", obj |-> NoneType,
     distance |-> None, normal |-> NoneV]

\* A Python set is iterated in an order the program does not choose: a set
\* of objects is a sequence without repetitions, in iteration order, and an
\* element is added at any place of it.
InsertAt(seq, i, e) == SubSeq(seq, 1, i - 1) \o <<e>> \o SubSeq(seq, i, Len(seq))

Elements(seq) == {seq[i] : i \in 1..Len(seq)}

\* ObjectGroup.__init__ with no objects.
EmptyGroup == [kind |-> "ObjectGroup", objects |-> <<>>, bounding |-> NoneType]

\* ObjectGroup.add_object, the object landing at place i of the iteration
\* order.  bounding is the attribute _bounding_box.
add_object(self, object_, i) ==
    LET box == bounding_box(object_)
        bounding == IF self.bounding.kind = "None" THEN box
                    ELSE combine(self.bounding, box)
    IN  IF IsRaised(self) THEN self
        ELSE IF IsRaised(bounding) THEN bounding
        ELSE [self EXCEPT !.objects = InsertAt(@, i, object_),
                          !.bounding = bounding]

\* ObjectGroup(obj, best), in each iteration order of its two children.
ObjectGroup(obj, best) ==
    {add_object(add_object(EmptyGroup, obj, 1), best, i) : i \in 1..2}

\* What a solid's intersection gives the loops of Scene.intersection and
\* ObjectGroup.intersection: (obj, distance, normal).
Found(obj, res) == <<obj, res[1], res[2]>>

\* One step of those loops: the nearest so far, replaced by a strictly
\* nearer hit.
Nearer(best, found) ==
    IF found[2] /= None /\ found[2] < best[2] THEN found ELSE best

\* The end of both loops: a minimum still at INFINITY is no hit.
NearestFound(best) ==
    IF best[2] = INFINITY THEN <<best[1], None, best[3]>> ELSE best

ReturnedFound(found) == Returned(found[1], found[2], found[3])

RECURSIVE ObjectGroup_intersection(_, _, _, _)

RECURSIVE GroupLoop(_, _, _, _, _, _)

\* The loop over the children of a group, from child i on.
GroupLoop(self, r, compute_normal, source_object, i, best) ==
    IF i > Len(self.objects) THEN best
    ELSE GroupLoop(self, r, compute_normal, source_object, i + 1,
                   Nearer(best,
                          IF self.objects[i].kind = "ObjectGroup"
                          THEN ObjectGroup_intersection(
                                   self.objects[i], r, compute_normal,
                                   source_object)
                          ELSE Found(self.objects[i],
                                     intersection(self.objects[i], r,
                                                  compute_normal))))

\* ObjectGroup.intersection: (object, distance, normal).  The test of the
\* group's own box decides only by whether its distance is None.
ObjectGroup_intersection(self, r, compute_normal, source_object) ==
    IF AxisAlignedBox_intersection(self.bounding, r, FALSE)[1] = None
    THEN <<NoneType, None, NoneV>>
    ELSE NearestFound(GroupLoop(self, r, compute_normal, source_object, 1,
                                <<NoneType, INFINITY, NoneV>>))

\* Scene.__init__
Scene == [objects |-> <<>>, lights |-> {}, tree |-> NoneType]

RECURSIVE SceneLoop(_, _, _, _, _)

\* The loop of Scene.intersection over self.objects, from object i on.
SceneLoop(self, r, compute_normal, i, best) ==
    IF i > Len(self.objects) THEN best
    ELSE SceneLoop(self, r, compute_normal, i + 1,
                   Nearer(best,
                          Found(self.objects[i],
                                intersection(self.objects[i], r,
                                             compute_normal))))

\* Scene.intersection(ray, compute_normal=True)
Scene_intersection(self, r, compute_normal) ==
    ReturnedFound(NearestFound(SceneLoop(self, r, compute_normal, 1,
                                         <<NoneType, INFINITY, NoneV>>)))

\* What is_obscured gives: the boolean returned or the exception raised.
Answered(value) == [called |-> TRUE, raised |-> "None", value |-> value]

AnswerRaises(type) == [called |-> TRUE, raised |-> type, value |-> FALSE]

\* The last line of Scene.is_obscured: distance - diff.norm(), below the
\* tolerance; a distance of None cannot be subtracted from.
ObscuredFound(diff, found) ==
    IF found.raised /= "None" THEN AnswerRaises(found.raised)
    ELSE IF found.distance = None THEN AnswerRaises("TypeError")
    ELSE Answered(DirDen * DirDen * (found.distance - norm(diff))
                    < INTERSECTION_TOLERANCE)

\* The function under the decorator of Scene.is_obscured.
is_obscured_wrapped(self, source, destination) ==
    ObscuredFound(VSub(destination, source),
                  ReturnedFound(NearestFound(
                      SceneLoop(self, Ray(source, VSub(destination, source),
                                          0, INFINITY),
                                FALSE, 1, <<NoneType, INFINITY, NoneV>>))))

\* Vector defines __eq__ and no __hash__: of the classes of the model's
\* values, the one whose instances cannot be hashed.
Hashable(class) == class /= "Vector"

\* Scene.is_obscured: lru_cache makes a key of the arguments, hashing each,
\* before it calls the function; source and destination are Vectors.
is_obscured(self, source, destination) ==
    IF Hashable("Vector")
    THEN is_obscured_wrapped(self, source, destination)
    ELSE AnswerRaises("TypeError")

\* combined_volume of Scene._compute_tree, before the volume is taken.
combined_box(box1, obj2) == combine(box1, bounding_box(obj2))

RECURSIVE TreeLoop(_)

\* The while loop of Scene._compute_tree on the working set objects: every
\* value it can leave as the last element, one for each choice of pop(), of
\* the first minimum min() meets and of the groups' iteration orders; an
\* exception where the key function raises.
TreeLoop(objects) ==
    IF Cardinality(objects) <= 1 THEN objects
    ELSE UNION {
        LET rest == objects \ {obj}
            box1 == bounding_box(obj)
        IN  IF \E o \in rest : IsRaised(combined_box(box1, o))
            THEN {Raised("AttributeError")}
            ELSE UNION {
                UNION { TreeLoop((rest \ {best}) \cup {group}) :
                        group \in ObjectGroup(obj, best) } :
                best \in {o \in rest : \A other \in rest :
                            volume(combined_box(box1, o))
                            <= volume(combined_box(box1, other))} }
        : obj \in objects }

\* Scene._compute_tree: the values self.tree can have after the call (an
\* exception: the call raised and self.tree keeps its value).
compute_tree(self) ==
    IF Len(self.objects) < 2 THEN {self.tree}
    ELSE TreeLoop(Elements(self.objects))

\* Scene.intersection_old, given the tree the call found or built: tree is
\* in compute_tree(self) when self.tree was None, and is self.tree
\* otherwise.  tree.print() of a tree that is None raises AttributeError;
\* of a built tree it writes the boxes' volumes and changes nothing.
intersection_old(self, tree, r, compute_normal, source_object) ==
    IF IsRaised(tree) THEN Raises(tree.type)
    ELSE IF tree.kind = "None" THEN Raises("AttributeError")
    ELSE ReturnedFound(ObjectGroup_intersection(tree, r, compute_normal,
                                                source_object))

----------------------------------------------------------------------------
(* vector.py, colour.py: what the camera and the renderer use *)

\* Vector.cross
cross(self, other) ==
    <<self[2] * other[3] - other[2] * self[3],
      self[3] * other[1] - other[3] * self[1],
      self[1] * other[2] - other[1] * self[2]>>

\* Colour.__add__ and __iadd__
CAdd(a, b) == Colour(a[1] + b[1], a[2] + b[2], a[3] + b[3])

\* Colour.__mul__ by a Colour
CMul(a, b) ==
    Colour(Quot(a[1] * b[1], ColDen), Quot(a[2] * b[2], ColDen),
           Quot(a[3] * b[3], ColDen))

\* Colour.__mul__ by the number num / den
CScale(a, num, den) ==
    Colour(Quot(a[1] * num, den), Quot(a[2] * num, den),
           Quot(a[3] * num, den))

\* Colour.clamped(): each channel brought into [0.0, 1.0].
clamped(c) ==
    <<Max2(Min2(c[1], ColDen), 0), Max2(Min2(c[2], ColDen), 0),
      Max2(Min2(c[3], ColDen), 0)>>

RECURSIVE Pow(_, _)

\* pow(base, exponent) for a whole exponent >= 0
Pow(base, exponent) ==
    IF exponent = 0 THEN 1 ELSE base * Pow(base, exponent - 1)

----------------------------------------------------------------------------
(* camera.py *)

\* coordinate_range: range(min_value, size if max_value is None else
\* max_value + 1), as the sequence of its values.
coordinate_range(min_value, max_value, size) ==
    LET stop == IF max_value = None THEN size ELSE max_value + 1
    IN  [k \in 1..Max2(stop - min_value, 0) |-> min_value + k - 1]

\* Orthographic.__init__
Orthographic(position, up, forward, width, height) ==
    LET unit_forward == normalized(forward)
    IN  [kind |-> "Orthographic", position |-> position,
         forward |-> unit_forward,
         up |-> normalized(
                    VSub(up, VDiv(VMul(unit_forward, Dot(up, unit_forward)),
                                  DirDen * DirDen))),
         width |-> width, height |-> height,
         right |-> normalized(cross(forward, up))]

\* Orthographic.rays: the (x, y, ray) triples in the order they are
\* yielded, y in the outer loop and x in the inner one.
Orthographic_rays(self, image_width, image_height, xmin, xmax, ymin, ymax) ==
    LET pixel_width == Quot(self.width, image_width)
        pixel_height == Quot(self.height, image_height)
        Along(unit, length) == VDiv(VMul(unit, length), DirDen)
        Half(unit, length) == VDiv(VMul(unit, length), 2 * DirDen)
        bottom_left ==
            VAdd(VAdd(VSub(VSub(self.position, Half(self.right, self.width)),
                           Half(self.up, self.height)),
                      Half(self.right, pixel_width)),
                 Half(self.up, pixel_height))
        xs == coordinate_range(xmin, xmax, image_width)
        ys == coordinate_range(ymin, ymax, image_height)
    IN  [k \in 1..(Len(ys) * Len(xs)) |->
            LET y == ys[((k - 1) \div Len(xs)) + 1]
                x == xs[((k - 1) % Len(xs)) + 1]
            IN  <<x, y,
                  Ray(VAdd(VAdd(bottom_left,
                                Along(self.right, x * pixel_width)),
                           Along(self.up, y * pixel_height)),
                      self.forward, 0, INFINITY)>>]

----------------------------------------------------------------------------
(* result.py *)

\* RenderResult.__init__: _data holds width * height * len(components)
\* zeros; cell k of the array is data[k + 1].  A component named twice
\* keeps the index of its last place in the list, as the dict does.
RenderResult(width, height, components) ==
    [kind |-> "RenderResult", width |-> width, height |-> height,
     component_index |-> [c \in Elements(components) |->
                            (CHOOSE k \in 1..Len(components) :
                                /\ components[k] = c
                                /\ \A j \in (k + 1)..Len(components) :
                                      components[j] /= c) - 1],
     data |-> [k \in 1..(width * height * Len(components)) |-> 0],
     row_stride |-> width * Len(components)]

\* An index that takes the row stride to be the width in pixels.
indexByWidth(self, x, y, component) ==
    self.width * y + Cardinality(DOMAIN self.component_index) * x
    + self.component_index[component]

\* RenderResult._index
index(self, x, y, component) ==
    self.row_stride * y + Cardinality(DOMAIN self.component_index) * x
    + self.component_index[component]

\* RenderResult.__setitem__: an index past the end of the array raises
\* IndexError.
setitem(self, x, y, component, value) ==
    IF IsRaised(self) THEN self
    ELSE IF index(self, x, y, component) >= Len(self.data)
    THEN Raised("IndexError")
    ELSE [self EXCEPT !.data[index(self, x, y, component) + 1] = value]

\* RenderResult.__getitem__
getitem(self, x, y, component) == self.data[index(self, x, y, component) + 1]

\* ResultComponent: the value of each member of the enum.
ResultComponent ==
    [red |-> 1, green |-> 2, blue |-> 3, alpha |-> 4, distance |-> 5]

\* RenderResult._magic: b"SAW\x00"
Magic == <<83, 65, 87, 0>>

\* One "<i" field of _header_struct: four bytes, least significant first
\* (for the non-negative numbers of the model).
Int32Bytes(n) ==
    <<n % 256, (n \div 256) % 256, (n \div 65536) % 256,
      (n \div 16777216) % 256>>

Int32Value(b) == b[1] + 256 * b[2] + 65536 * b[3] + 16777216 * b[4]

\* The eight bytes of one item of array("d"): the model's numbers stand
\* for doubles, and their bytes are an encoding that tells them apart.
DoubleBytes(v) == <<v % 256, (v \div 256) % 256, 0, 0, 0, 0, 0, 0>>

DoubleValue(b) == b[1] + 256 * b[2]

RECURSIVE Concat(_)

\* The bytes of a sequence of byte strings, written one after another.
Concat(strings) ==
    IF strings = <<>> THEN <<>> ELSE Head(strings) \o Concat(Tail(strings))

\* The components in the order of their values in the enum, whatever
\* their indices: what tofile would write without its sort key.
ComponentsByValue(self) ==
    [k \in 1..Cardinality(DOMAIN self.component_index) |->
        CHOOSE c \in DOMAIN self.component_index :
            Cardinality({d \in DOMAIN self.component_index :
                            ResultComponent[d] < ResultComponent[c]}) = k - 1]

\* sorted(self.component_index.items(), key=lambda pair: pair[1]): the
\* components in the order of their indices.
SortedComponents(self) ==
    [k \in 1..Cardinality(DOMAIN self.component_index) |->
        CHOOSE c \in DOMAIN self.component_index :
            Cardinality({d \in DOMAIN self.component_index :
                            self.component_index[d]
                                < self.component_index[c]}) = k - 1]

\* RenderResult.tofile: the bytes written to fileobj.
tofile(self) ==
    Magic
    \o Int32Bytes(self.width) \o Int32Bytes(self.height)
    \o Int32Bytes(Cardinality(DOMAIN self.component_index))
    \o [k \in 1..Cardinality(DOMAIN self.component_index) |->
            ResultComponent[SortedComponents(self)[k]]]
    \o Concat([k \in 1..Len(self.data) |-> DoubleBytes(self.data[k])])

\* The member of ResultComponent with this value.
ComponentOf(value) ==
    CHOOSE c \in DOMAIN ResultComponent : ResultComponent[c] = value

\* The end of fromfile: cls(width, height, components), its _data
\* replaced by width * height * num_components items read from the file;
\* EOFError when the file holds fewer.
FileLoaded(bytes, width, height, components) ==
    IF Len(bytes) < 16 + Len(components)
                    + 8 * width * height * Len(components)
    THEN Raised("EOFError")
    ELSE [RenderResult(width, height, components) EXCEPT
            !.data = [k \in 1..(width * height * Len(components)) |->
                        DoubleValue(SubSeq(bytes,
                                           16 + Len(components) + 8 * k - 7,
                                           16 + Len(components) + 8 * k))]]

\* The components read: ResultComponent(ord(fileobj.read(1))) for each of
\* num_components; a byte that is no member's value is a ValueError.
FileComponents(bytes, width, height, num_components) ==
    IF Len(bytes) < 16 + num_components THEN Raised("TypeError")
    ELSE IF \E k \in 1..num_components :
                bytes[16 + k] \notin {ResultComponent[c] :
                                        c \in DOMAIN ResultComponent}
    THEN Raised("ValueError")
    ELSE FileLoaded(bytes, width, height,
                    [k \in 1..num_components |->
                        ComponentOf(bytes[16 + k])])

\* RenderResult.fromfile: the magic asserted, the header unpacked.
fromfile(bytes) ==
    IF Len(bytes) < 4 \/ SubSeq(bytes, 1, 4) /= Magic
    THEN Raised("AssertionError")
    ELSE IF Len(bytes) < 16 THEN Raised("struct.error")
    ELSE FileComponents(bytes, Int32Value(SubSeq(bytes, 5, 8)),
                        Int32Value(SubSeq(bytes, 9, 12)),
                        Int32Value(SubSeq(bytes, 13, 16)))

----------------------------------------------------------------------------
(* renderer.py *)

\* The parameters of Scene.intersection(self, ray, compute_normal=True)
\* that a positional argument can bind to, after self.
Scene_intersection_params == 2

\* A call scene.intersection(*positional): more positional arguments than
\* parameters is a TypeError, raised before the body runs.
CallSceneIntersection(self, positional) ==
    IF Len(positional) > Scene_intersection_params
    THEN Raises("TypeError")
    ELSE Scene_intersection(self, positional[1],
                            IF Len(positional) >= 2 THEN positional[2]
                            ELSE TRUE)

\* Renderer.__init__
Renderer(recursion_depth) == [recursion_depth |-> recursion_depth]

\* What _compute_colour and its helpers produce: the colour returned or
\* the exception raised, how many reflected rays were cast on the way, and
\* the depth argument of each invocation of _compute_colour, outermost
\* first.
Shaded(raised, colour, rays) ==
    [raised |-> raised, colour |-> colour, reflected |-> rays,
     depths |-> <<>>]

\* Renderer._compute_ambient
compute_ambient(obj, light) ==
    Shaded("None", clamped(CMul(obj.material.ambient, light.colour)), 0)

\* The first lines of _compute_diffuse and _compute_specular: the ray from
\* the light to the point, and whether the light sees the point.
LightRay(intersection_point, light) ==
    Ray(light.position, VSub(intersection_point, light.position), 0,
        INFINITY)

Obscured(obj, intersection_point, light, found) ==
    \/ found.obj /= obj
    \/ DirDen * DirDen
         * (norm(VSub(intersection_point, light.position)) - found.distance)
         > INTERSECTION_TOLERANCE

\* The else branch of _compute_diffuse: the colour of a point the light
\* sees.
DiffuseColour(obj, normal, light, r, found) ==
    IF found.raised /= "None" THEN Shaded(found.raised, BLACK, 0)
    ELSE Shaded("None",
                clamped(CScale(CScale(CMul(obj.material.diffuse,
                                           light.colour),
                                      0 - Dot(r.direction, normal),
                                      DirDen * DirDen),
                               light.intensity,
                               found.distance * found.distance)),
                0)

\* The else branch of _compute_specular.
SpecularColour(obj, normal, light, r, found) ==
    IF found.raised /= "None" THEN Shaded(found.raised, BLACK, 0)
    ELSE Shaded("None",
                clamped(CScale(CMul(CScale(obj.material.specular,
                                           Pow(0 - Dot(r.direction, normal),
                                               obj.material.shinyness),
                                           Pow(DirDen * DirDen,
                                               obj.material.shinyness)),
                                    light.colour),
                               light.intensity,
                               found.distance * found.distance)),
                0)

\* The test both make first: BLACK when the light does not see the point.
Unobscured(obj, intersection_point, light, found, colour) ==
    IF found.raised /= "None" THEN Shaded(found.raised, BLACK, 0)
    ELSE IF Obscured(obj, intersection_point, light, found)
    THEN Shaded("None", BLACK, 0)
    ELSE colour

\* Renderer._compute_diffuse; scene.intersection(ray, compute_normal=False)
\* passes one positional argument.
DiffuseFound(obj, intersection_point, normal, light, r, found) ==
    Unobscured(obj, intersection_point, light, found,
               DiffuseColour(obj, normal, light, r, found))

compute_diffuse(obj, intersection_point, normal, light, sc) ==
    DiffuseFound(obj, intersection_point, normal, light,
                 LightRay(intersection_point, light),
                 CallSceneIntersection(
                     sc, <<LightRay(intersection_point, light)>>))

\* Renderer._compute_specular
SpecularFound(obj, intersection_point, normal, light, r, found) ==
    Unobscured(obj, intersection_point, light, found,
               SpecularColour(obj, normal, light, r, found))

compute_specular(obj, intersection_point, normal, light, sc) ==
    SpecularFound(obj, intersection_point, normal, light,
                  LightRay(intersection_point, light),
                  CallSceneIntersection(
                      sc, <<LightRay(intersection_point, light)>>))

\* colour += contribution; the first exception raised is the outcome.
AddShaded(colour, contribution) ==
    IF colour.raised /= "None" THEN colour
    ELSE IF contribution.raised /= "None" THEN contribution
    ELSE Shaded("None", CAdd(colour.colour, contribution.colour), 0)

\* One light's contribution in the loop of _compute_colour.
LightColour(obj, intersection_point, normal, light, sc) ==
    IF light.kind = "Ambient" THEN compute_ambient(obj, light)
    ELSE AddShaded(compute_diffuse(obj, intersection_point, normal, light,
                                   sc),
                   compute_specular(obj, intersection_point, normal, light,
                                    sc))

\* The light the loop over the set scene.lights takes next.
NextLight(lights) == CHOOSE light \in lights : TRUE

RECURSIVE LightsLoop(_, _, _, _, _, _)

\* The loop of _compute_colour over scene.lights, adding to colour.
LightsLoop(lights, obj, intersection_point, normal, sc, colour) ==
    IF lights = {} THEN colour
    ELSE LightsLoop(lights \ {NextLight(lights)}, obj, intersection_point,
                    normal, sc,
                    AddShaded(colour,
                              LightColour(obj, intersection_point, normal,
                                          NextLight(lights), sc)))

\* Lines 76-82 of _compute_colour: the reflected colour scaled by the
\* reflectivity and added.
AddReflected(obj, lit, reflected_colour) ==
    IF reflected_colour.raised /= "None"
    THEN [reflected_colour EXCEPT !.reflected = @ + 1]
    ELSE [Shaded("None",
                 clamped(CAdd(lit.colour,
                              CScale(reflected_colour.colour,
                                     obj.material.reflectivity, ColDen))),
                 reflected_colour.reflected + 1)
            EXCEPT !.depths = reflected_colour.depths]

RECURSIVE compute_colour(_, _, _, _, _)

\* A body that, when the scene's query raises, casts the ray again one
\* level down, until depth exceeds recursion_depth.
ShadeFoundAgain(self, r, sc, depth, found) ==
    IF found.raised /= "None" /\ depth <= self.recursion_depth
    THEN AddReflected(NoneType, Shaded("None", BLACK, 0),
                      compute_colour(self, r, sc, depth + 1, NoneType))
    ELSE IF found.raised /= "None" THEN Shaded(found.raised, BLACK, 0)
    ELSE Shaded("None", Colour(0, 0, 0), 0)

\* Lines 70-82 of _compute_colour: after the loop over the lights.
ShadeLit(self, r, sc, depth, obj, intersection_point, normal, lit) ==
    IF lit.raised /= "None" THEN lit
    ELSE IF obj.material.reflectivity = 0 \/ depth >= self.recursion_depth
    THEN Shaded("None", clamped(lit.colour), 0)
    ELSE AddReflected(obj, lit,
                      compute_colour(self,
                                     Ray(intersection_point,
                                         reflected(r.direction, normal), 0,
                                         INFINITY),
                                     sc, depth + 1, obj))

\* Lines 55-82 of _compute_colour: after the call of scene.intersection.
ShadeFound(self, r, sc, depth, found) ==
    IF found.raised /= "None" THEN Shaded(found.raised, BLACK, 0)
    ELSE IF found.distance = None THEN Shaded("None", Colour(0, 0, 0), 0)
    ELSE ShadeLit(self, r, sc, depth, found.obj, point(r, found.distance),
                  found.normal,
                  LightsLoop(sc.lights, found.obj, point(r, found.distance),
                             found.normal, sc,
                             Shaded("None", Colour(0, 0, 0), 0)))

\* An invocation at this depth, and what its body produced.
Invoked(depth, shaded) == [shaded EXCEPT !.depths = <<depth>> \o @]

\* Renderer._compute_colour(ray, scene, depth=0, source_object=None)
compute_colour(self, r, sc, depth, source_object) ==
    Invoked(depth,
            ShadeFound(self, r, sc, depth,
                       CallSceneIntersection(sc, <<r, TRUE, source_object>>)))

\* The components of the result of a render.
RenderComponents == <<"red", "green", "blue">>

\* The lines of Renderer.render before its loop: the state of a call.
RenderStart(self, sc, camera, width, height, xmin, xmax, ymin, ymax) ==
    [pc |-> "loop", self |-> self, result |->
        RenderResult(width, height, RenderComponents),
     rays |-> Orthographic_rays(camera, width, height, xmin, xmax, ymin,
                                ymax),
     i |-> 0, error |-> NoneType, returned |-> NoneType]

\* ValueError("Error while rendering pixel (x, y)") from exc
PixelError(x, y, exc) ==
    [kind |-> "raised", type |-> "ValueError", pixel |-> <<x, y>>,
     cause |-> exc]

\* A render that swallows the exception and writes a fallback colour.
RenderPixelFallback(rd, sc) ==
    LET x == rd.rays[rd.i + 1][1]
        y == rd.rays[rd.i + 1][2]
    IN  [rd EXCEPT !.result = setitem(setitem(setitem(rd.result, x, y, "red",
                                                      ColDen),
                                              x, y, "green", ColDen),
                                      x, y, "blue", ColDen),
                   !.i = @ + 1]

\* Lines 39-46 of render: the exception wrapped and raised, or the colour
\* stored at (x, y).
StoreColour(rd, x, y, colour) ==
    IF colour.raised /= "None"
    THEN [rd EXCEPT !.pc = "raised",
                    !.error = PixelError(x, y, colour.raised)]
    ELSE IF IsRaised(setitem(rd.result, x, y, "blue", colour.colour[3]))
    THEN [rd EXCEPT !.pc = "raised",
                    !.error = setitem(rd.result, x, y, "blue",
                                      colour.colour[3])]
    ELSE [rd EXCEPT !.result =
                        setitem(setitem(setitem(rd.result, x, y, "red",
                                                colour.colour[1]),
                                        x, y, "green", colour.colour[2]),
                                x, y, "blue", colour.colour[3]),
                    !.i = @ + 1]

\* One pass of the loop of Renderer.render, for triple i of the camera's
\* rays: the colour computed and stored, or the exception wrapped and
\* raised.  (The progress line printed every 10000 rays changes nothing.)
RenderPixelStep(rd, sc) ==
    StoreColour(rd, rd.rays[rd.i + 1][1], rd.rays[rd.i + 1][2],
                compute_colour(rd.self, rd.rays[rd.i + 1][3], sc, 0,
                               NoneType))

----------------------------------------------------------------------------
(* The solids and rays of the model *)

Matte == Material(RED, 0, 2)

Mirror == Material(WHITE, ColDen, 2)

\* Points lie on a grid of step GridStep, GridMax steps each way from the
\* origin, in the plane z = 0.
GridStep == 12

GridMax == 8

GridPoints ==
    {<<GridStep * i, GridStep * j, 0>> : i, j \in (0 - GridMax)..GridMax}

\* Unit vectors: along the x and y axes, and 3-4-5 diagonals.
Directions ==
    {<<5, 0, 0>>, <<-5, 0, 0>>, <<0, 5, 0>>, <<0, -5, 0>>,
     <<3, 4, 0>>, <<-3, -4, 0>>, <<4, 3, 0>>, <<-4, -3, 0>>}

\* A ray with the default bounds of Ray.__init__.
DefaultRay(source, direction) == Ray(source, direction, 0, INFINITY)

SphereA == Sphere(<<0, 0, 0>>, 60, Matte)
SphereB == Sphere(<<0, 0, 0>>, 15, Matte)
SphereC == Sphere(<<60, 0, 0>>, 60, Matte)
SphereFar == Sphere(<<0, 84, 0>>, 12, Matte)
BoxA == AxisAlignedBox(-48, 48, -48, 48, -48, 48, Matte)
BoxB == AxisAlignedBox(-24, 24, -24, 24, -24, 24, Matte)
BoxFar == AxisAlignedBox(60, 84, -24, 24, -24, 24, Matte)
PlaneY == Plane(<<0, 0, 0>>, <<0, 1, 0>>, Matte)
CylZ == InfiniteCylinder(<<0, 0, 0>>, <<0, 0, 1>>, 60, Matte)
CylX == InfiniteCylinder(<<0, 0, 0>>, <<1, 0, 0>>, 36, Matte)
CylY == Cylinder(<<0, -30, 0>>, <<0, 30, 0>>, 60, Matte)

Primitives == {SphereA, SphereB, BoxA, BoxB, PlaneY, CylZ, CylX, CylY}

\* Difference(A, B) with B strictly inside A.
NestedDifferences ==
    {Difference(SphereA, SphereB, Matte), Difference(BoxA, BoxB, Matte),
     Difference(SphereA, BoxB, Matte)}

\* Intersection(A, B) of two solids with no common point.
DisjointIntersections ==
    {Intersection(SphereB, SphereFar, Matte),
     Intersection(BoxB, BoxFar, Matte),
     Intersection(SphereB, BoxFar, Matte)}

OverlappingIntersections ==
    {Intersection(SphereA, SphereC, Matte),
     Intersection(BoxA, PlaneY, Matte),
     Intersection(PlaneY, BoxB, Matte),
     Intersection(BoxA, BoxFar, Matte),
     Intersection(SphereA, BoxB, Matte)}

CsgNodes ==
    NestedDifferences \cup DisjointIntersections \cup OverlappingIntersections

Solids == Primitives \cup CsgNodes

\* The primary rays cast at a solid: those the arithmetic is exact for.
PrimaryRays(obj) ==
    {r \in {DefaultRay(s, d) : s \in GridPoints, d \in Directions} :
        Exact(obj, r)}

----------------------------------------------------------------------------
(* Casting a ray at one solid, and following it through the solid *)

\* How many times a ray is cast again from the hit point it reported.
MaxCasts == 6

NoScene == Scene

NoRender == [pc |-> "idle"]

NoResult == <<None, NoneV>>

InitCast ==
    /\ pc = "ready"
    /\ solid \in Solids
    /\ ray \in PrimaryRays(solid)
    /\ result = NoResult
    /\ hits = <<>>
    /\ scene = NoScene
    /\ render = NoRender

\* solid.intersection(ray, True)
Cast ==
    /\ pc = "ready"
    /\ result' = intersection(solid, ray, TRUE)
    /\ pc' = "cast"
    /\ UNCHANGED <<solid, ray, hits, scene, render>>

\* A caller following the ray: a new ray from the reported hit point, in
\* the same direction (as Renderer does from intersection_point).
Recast ==
    /\ pc = "cast"
    /\ result[1] /= None
    /\ result[1] < INFINITY
    /\ Len(hits) < MaxCasts
    /\ LET hit == point(ray, result[1])
           next == DefaultRay(hit, ray.direction)
       IN  /\ Exact(solid, next)
           /\ hits' = Append(hits, [source |-> ray.source, point |-> hit,
                                    normal |-> result[2]])
           /\ ray' = next
    /\ result' = NoResult
    /\ pc' = "ready"
    /\ UNCHANGED <<solid, scene, render>>

NextCast == Cast \/ Recast

SpecCast == InitCast /\ [][NextCast]_vars

----------------------------------------------------------------------------
(* Building a scene and querying it both ways *)

\* How many solids a scene holds.
MaxObjects == 3

\* The solids put in a scene: primitives with a finite and an infinite
\* box, and CSG nodes whose box is a box, is None and raises.
ScenePool ==
    {SphereB, BoxFar, PlaneY,
     Intersection(SphereA, SphereC, Matte),
     Intersection(SphereB, SphereFar, Matte),
     Difference(SphereA, SphereB, Matte)}

\* The rays cast at a scene: from the left edge of the grid.
SceneRays ==
    {r \in {DefaultRay(s, d) :
                s \in {p \in GridPoints : p[1] = 0 - GridStep * GridMax},
                d \in Directions} :
        \A obj \in ScenePool : Exact(obj, r)}

NoQueries == [naive |-> NotCalled, old |-> NotCalled]

InitScene ==
    /\ pc = "scene"
    /\ solid = NoneType
    /\ ray \in SceneRays
    /\ result = NoQueries
    /\ hits = <<>>
    /\ scene = Scene
    /\ render = NoRender

\* scene.objects.add(obj), while the scene is being constructed: before
\* the first query.
SceneAddObject ==
    /\ pc = "scene"
    /\ scene.tree = NoneType
    /\ result = NoQueries
    /\ Len(scene.objects) < MaxObjects
    /\ \E obj \in ScenePool \ Elements(scene.objects) :
       \E i \in 1..(Len(scene.objects) + 1) :
            scene' = [scene EXCEPT !.objects = InsertAt(@, i, obj)]
    /\ UNCHANGED <<pc, solid, ray, result, hits, render>>

\* scene.intersection(ray)
SceneIntersection ==
    /\ pc = "scene"
    /\ result' = [result EXCEPT !.naive = Scene_intersection(scene, ray, TRUE)]
    /\ UNCHANGED <<pc, solid, ray, hits, scene, render>>

\* scene.intersection_old(ray)
SceneIntersectionOld ==
    /\ pc = "scene"
    /\ \E tree \in (IF scene.tree = NoneType THEN compute_tree(scene)
                    ELSE {scene.tree}) :
        /\ result' = [result EXCEPT
                        !.old = intersection_old(scene, tree, ray, TRUE,
                                                 NoneType)]
        /\ scene' = [scene EXCEPT
                        !.tree = IF IsRaised(tree) THEN scene.tree ELSE tree]
    /\ UNCHANGED <<pc, solid, ray, hits, render>>

NextScene == SceneAddObject \/ SceneIntersection \/ SceneIntersectionOld

SpecScene == InitScene /\ [][NextScene]_vars

----------------------------------------------------------------------------
(* Rendering a scene *)

\* The largest image, in pixels each way.
MaxSize == 2

\* The largest recursion_depth of a Renderer.
MaxDepth == 2

MirrorBox == AxisAlignedBox(-24, 24, -24, 24, -24, 24, Mirror)

\* The scenes rendered: empty; a mirror under ambient light; a matte box
\* under a point light; a mirror and a sphere under both.
RenderScenes ==
    {Scene,
     [Scene EXCEPT !.objects = <<MirrorBox>>, !.lights = {Ambient(WHITE)}],
     [Scene EXCEPT !.objects = <<BoxB>>,
                   !.lights = {Ambient(WHITE),
                               Point(<<-96, 0, 0>>, WHITE, 10000)}],
     [Scene EXCEPT !.objects = <<BoxFar, MirrorBox>>,
                   !.lights = {Ambient(RED),
                               Point(<<-96, 0, 0>>, WHITE, 10000)}]}

\* The camera: at the left edge of the grid, looking along +x.
RenderCamera ==
    Orthographic(<<0 - GridStep * GridMax, 0, 0>>, <<0, 1, 0>>, <<1, 0, 0>>,
                 4 * GridStep, 4 * GridStep)

InitRender ==
    /\ pc = "render"
    /\ solid = NoneType
    /\ ray = NoneType
    /\ result = NoneType
    /\ hits = <<>>
    /\ scene \in RenderScenes
    /\ render = NoRender

\* Renderer(recursion_depth).render(scene, camera, width, height, xmin,
\* xmax, ymin, ymax), up to its loop.
RenderCall ==
    /\ pc = "render"
    /\ render.pc = "idle"
    /\ \E recursion_depth \in 0..MaxDepth, width, height \in 1..MaxSize,
          xmin, ymin \in 0..1, xmax, ymax \in {None} \cup (0..(MaxSize - 1)) :
            render' = RenderStart(Renderer(recursion_depth), scene,
                                  RenderCamera, width, height, xmin, xmax,
                                  ymin, ymax)
    /\ UNCHANGED <<pc, solid, ray, result, hits, scene>>

\* One pass of the loop of render.
RenderPixel ==
    /\ pc = "render"
    /\ render.pc = "loop"
    /\ render.i < Len(render.rays)
    /\ render' = RenderPixelStep(render, scene)
    /\ UNCHANGED <<pc, solid, ray, result, hits, scene>>

\* return result, when the camera's rays are exhausted.
RenderReturn ==
    /\ pc = "render"
    /\ render.pc = "loop"
    /\ render.i = Len(render.rays)
    /\ render' = [render EXCEPT !.pc = "returned", !.returned = render.result]
    /\ UNCHANGED <<pc, solid, ray, result, hits, scene>>

NextRender == RenderCall \/ RenderPixel \/ RenderReturn

SpecRender == InitRender /\ [][NextRender]_vars

----------------------------------------------------------------------------
(* The scene's lazily built tree: solids added and accelerated queries made
   in any order *)

\* How many accelerated queries are made of one scene.
MaxQueries == 3

\* The solids added: three with a box, and one whose box raises.
LazyPool == {SphereB, BoxFar, SphereFar, Difference(SphereA, SphereB, Matte)}

LazyRays ==
    {r \in {DefaultRay(<<0 - GridStep * GridMax, 0, 0>>, d) :
                d \in {<<5, 0, 0>>, <<4, 3, 0>>}} :
        \A obj \in LazyPool : Exact(obj, r)}

InitLazy ==
    /\ pc = "lazy"
    /\ solid = NoneType
    /\ ray \in LazyRays
    /\ result = NotCalled
    /\ hits = <<>>
    /\ scene = Scene
    /\ render = NoRender

\* scene.objects.add(obj), before or after a query.
LazyAddObject ==
    /\ pc = "lazy"
    /\ Len(scene.objects) < MaxObjects
    /\ \E obj \in LazyPool \ Elements(scene.objects) :
       \E i \in 1..(Len(scene.objects) + 1) :
            scene' = [scene EXCEPT !.objects = InsertAt(@, i, obj)]
    /\ UNCHANGED <<pc, solid, ray, result, hits, render>>

\* What one accelerated query did, for the record kept in hits: the solids
\* the scene held, whether the query assigned self.tree, and the tree and
\* the outcome it left.
QueryRecord(sc, tree, outcome) ==
    [objects |-> sc.objects,
     built |-> sc.tree = NoneType /\ ~IsRaised(tree) /\ tree /= NoneType,
     tree |-> IF IsRaised(tree) THEN sc.tree ELSE tree,
     raised |-> outcome.raised]

\* scene.intersection_old(ray): _compute_tree when self.tree is None, then
\* the query of the tree.
LazyQuery ==
    /\ pc = "lazy"
    /\ Len(hits) < MaxQueries
    /\ \E r \in LazyRays :
       \E tree \in (IF scene.tree = NoneType THEN compute_tree(scene)
                    ELSE {scene.tree}) :
        /\ ray' = r
        /\ result' = intersection_old(scene, tree, r, TRUE, NoneType)
        /\ scene' = [scene EXCEPT
                        !.tree = IF IsRaised(tree) THEN scene.tree ELSE tree]
        /\ hits' = Append(hits,
                          QueryRecord(scene, tree,
                                      intersection_old(scene, tree, r, TRUE,
                                                       NoneType)))
    /\ UNCHANGED <<pc, solid, render>>

NextLazy == LazyAddObject \/ LazyQuery

SpecLazy == InitLazy /\ [][NextLazy]_vars

----------------------------------------------------------------------------
(* Workers making the first access to the scene's tree and to a solid's
   cached bounding box at the same time.  A worker runs
   Scene.intersection_old or Primitive.bounding_box one source line at a
   step; the steps of different workers interleave freely, as the program
   has no lock. *)

\* How many workers share the scene and the solid.
NumWorkers == 2

Workers == 1..NumWorkers

\* The shared scenes: two or three solids with a box.
WorkerScenes ==
    {[Scene EXCEPT !.objects = <<SphereB, BoxFar>>],
     [Scene EXCEPT !.objects = <<BoxFar, SphereB>>],
     [Scene EXCEPT !.objects = <<SphereB, BoxFar, SphereFar>>]}

\* The shared solids, with the attribute _cached_bounding_box that
\* Primitive.__init__ sets to None, and the identity of the object it
\* holds: the number of the computation that made it, 0 for none.
WorkerSolids ==
    {[object |-> obj, cached |-> NoneType, id |-> 0] :
        obj \in {SphereA, BoxA, CylY}}

\* A worker: the line it is at, and the identity of the object its call
\* ended with.
Worker(at, saw) == [at |-> at, saw |-> saw]

\* The computations made so far of one memoized value.
Computations(cell) == {n \in 1..Len(hits) : hits[n].cell = cell}

\* The identity of the tree self.tree holds: its build's number.
TreeId ==
    IF Computations("tree") = {} THEN 0
    ELSE CHOOSE n \in Computations("tree") :
            \A m \in Computations("tree") : m <= n

InitWorkers ==
    /\ pc = "workers"
    /\ solid \in WorkerSolids
    /\ ray = DefaultRay(<<0 - GridStep * GridMax, 0, 0>>, <<5, 0, 0>>)
    /\ result = [w \in Workers |-> Worker("idle", 0)]
    /\ hits = <<>>
    /\ scene \in WorkerScenes
    /\ render = NoRender

\* A worker calls scene.intersection_old(ray).
WorkerCallQuery(w) ==
    /\ pc = "workers"
    /\ result[w].at = "idle"
    /\ result' = [result EXCEPT ![w].at = "scene.py:103"]
    /\ UNCHANGED <<pc, solid, ray, hits, scene, render>>

\* if self.tree is None:
WorkerTestTree(w) ==
    /\ pc = "workers"
    /\ result[w].at = "scene.py:103"
    /\ result' = [result EXCEPT ![w].at = IF scene.tree = NoneType
                                          THEN "scene.py:104"
                                          ELSE "scene.py:107"]
    /\ UNCHANGED <<pc, solid, ray, hits, scene, render>>

\* self._compute_tree(): a new tree is built and assigned to self.tree
\* (none for a scene of fewer than two solids); an exception propagates.
WorkerBuildTree(w) ==
    /\ pc = "workers"
    /\ result[w].at = "scene.py:104"
    /\ \E tree \in compute_tree(scene) :
        IF IsRaised(tree)
        THEN /\ result' = [result EXCEPT ![w].at = "raised"]
             /\ UNCHANGED <<scene, hits>>
        ELSE /\ scene' = [scene EXCEPT !.tree = tree]
             /\ hits' = IF tree = scene.tree THEN hits
                        ELSE Append(hits, [cell |-> "tree", worker |-> w])
             /\ result' = [result EXCEPT ![w].at = "scene.py:105"]
    /\ UNCHANGED <<pc, solid, ray, render>>

\* self.tree.print()
WorkerPrintTree(w) ==
    /\ pc = "workers"
    /\ result[w].at = "scene.py:105"
    /\ result' = [result EXCEPT ![w].at = IF scene.tree = NoneType
                                          THEN "raised" ELSE "scene.py:107"]
    /\ UNCHANGED <<pc, solid, ray, hits, scene, render>>

\* return self.tree.intersection(...): the tree the worker's query used.
WorkerQueryTree(w) ==
    /\ pc = "workers"
    /\ result[w].at = "scene.py:107"
    /\ result' = [result EXCEPT ![w] = Worker("queried", TreeId)]
    /\ UNCHANGED <<pc, solid, ray, hits, scene, render>>

\* A worker calls solid.bounding_box().
WorkerCallBox(w) ==
    /\ pc = "workers"
    /\ result[w].at = "idle"
    /\ result' = [result EXCEPT ![w].at = "primitive.py:44"]
    /\ UNCHANGED <<pc, solid, ray, hits, scene, render>>

\* if not self._cached_bounding_box:
WorkerTestBox(w) ==
    /\ pc = "workers"
    /\ result[w].at = "primitive.py:44"
    /\ result' = [result EXCEPT ![w].at = IF solid.cached = NoneType
                                          THEN "primitive.py:45"
                                          ELSE "primitive.py:46"]
    /\ UNCHANGED <<pc, solid, ray, hits, scene, render>>

\* self._cached_bounding_box = self._bounding_box(): the box is computed
\* and stored.  AxisAlignedBox._bounding_box returns the solid itself, the
\* same object at each call; the others make a new box.
WorkerComputeBox(w) ==
    /\ pc = "workers"
    /\ result[w].at = "primitive.py:45"
    /\ hits' = Append(hits, [cell |-> "box", worker |-> w])
    /\ solid' = [solid EXCEPT
                    !.cached = Primitive_bounding_box(solid.object),
                    !.id = IF solid.object.kind = "AxisAlignedBox"
                           THEN 1 ELSE Len(hits) + 1]
    /\ result' = [result EXCEPT ![w].at = "primitive.py:46"]
    /\ UNCHANGED <<pc, ray, scene, render>>

\* return self._cached_bounding_box
WorkerReturnBox(w) ==
    /\ pc = "workers"
    /\ result[w].at = "primitive.py:46"
    /\ result' = [result EXCEPT ![w] = Worker("boxed", solid.id)]
    /\ UNCHANGED <<pc, solid, ray, hits, scene, render>>

NextWorkers ==
    \/ \E w \in Workers : WorkerCallQuery(w)
    \/ \E w \in Workers : WorkerTestTree(w)
    \/ \E w \in Workers : WorkerBuildTree(w)
    \/ \E w \in Workers : WorkerPrintTree(w)
    \/ \E w \in Workers : WorkerQueryTree(w)
    \/ \E w \in Workers : WorkerCallBox(w)
    \/ \E w \in Workers : WorkerTestBox(w)
    \/ \E w \in Workers : WorkerComputeBox(w)
    \/ \E w \in Workers : WorkerReturnBox(w)

SpecWorkers == InitWorkers /\ [][NextWorkers]_vars

----------------------------------------------------------------------------
(* Workers writing one RenderResult, each pixel written by one worker *)

\* The ordered component lists a result is made with.
BufferComponents == {RenderComponents, <<"distance", "alpha">>}

\* How the pixels are shared out between n workers: by row, by column, or
\* one by one.
Owner(sharing, width, x, y, n) ==
    CASE sharing = "rows" -> (y % n) + 1
      [] sharing = "columns" -> (x % n) + 1
      [] sharing = "pixels" -> ((y * width + x) % n) + 1

\* The value a worker stores at (x, y, component k): never the 0.0 the
\* array starts with, and different for every cell.
ValueOf(x, y, k) == 100 * y + 10 * x + k

\* The writes result[x, y, component] = value of a whole picture, row by
\* row, as <<x, y, k>> with k the component's place in the list.
AllWrites(width, height, components) ==
    [n \in 1..(width * height * Len(components)) |->
        <<((n - 1) \div Len(components)) % width,
          (n - 1) \div (Len(components) * width),
          ((n - 1) % Len(components)) + 1>>]

\* The writes that fall to one worker, in the same order.
WritesOf(w, buffer) ==
    SelectSeq(AllWrites(buffer.result.width, buffer.result.height,
                        buffer.components),
              LAMBDA t : Owner(buffer.sharing, buffer.result.width, t[1],
                               t[2], NumWorkers) = w)

\* result[x, y, component] = value, for the write <<x, y, k>>.
Write(self, components, t) ==
    setitem(self, t[1], t[2], components[t[3]], ValueOf(t[1], t[2], t[3]))

InitBuffer ==
    /\ pc = "buffer"
    /\ solid = NoneType
    /\ ray = NoneType
    /\ result = NoneType
    /\ hits = <<>>
    /\ scene = Scene
    /\ \E width, height \in 1..MaxSize, components \in BufferComponents,
          sharing \in {"rows", "columns", "pixels"} :
            render = [pc |-> "buffer", components |-> components,
                      sharing |-> sharing,
                      result |-> RenderResult(width, height, components),
                      done |-> [w \in Workers |-> 0]]

\* A worker's next write: one call of RenderResult.__setitem__.
BufferWrite(w) ==
    /\ pc = "buffer"
    /\ render.done[w] < Len(WritesOf(w, render))
    /\ render' = [render EXCEPT
                    !.result = Write(@, render.components,
                                     WritesOf(w, render)[render.done[w] + 1]),
                    !.done[w] = @ + 1]
    /\ UNCHANGED <<pc, solid, ray, result, hits, scene>>

NextBuffer == \E w \in Workers : BufferWrite(w)

SpecBuffer == InitBuffer /\ [][NextBuffer]_vars

----------------------------------------------------------------------------
(* Writing a RenderResult to a file and reading it back *)

\* The component lists results are made with: in the order of the enum, in
\* another order, of one component, of none, and with a component named
\* twice.
FileComponentLists ==
    {<<"red", "green", "blue">>, <<"blue", "green", "red">>,
     <<"distance", "alpha">>, <<"alpha">>, <<>>, <<"red", "red", "green">>}

\* How many different fillings of the array are tried.
MaxFillings == 3

\* A result whose array holds, at cell k, the number k + filling: cells
\* differ from each other and from the 0.0 they start with.
Filled(self, filling) ==
    [self EXCEPT !.data = [k \in 1..Len(self.data) |-> k + filling]]

InitFile ==
    /\ pc = "file"
    /\ solid = NoneType
    /\ ray = NoneType
    /\ result = NoneType
    /\ hits = <<>>
    /\ scene = Scene
    /\ \E width, height \in 0..MaxSize, components \in FileComponentLists,
          filling \in 1..MaxFillings :
            render = [pc |-> "made", components |-> components,
                      original |-> Filled(RenderResult(width, height,
                                                       components), filling),
                      file |-> <<>>, loaded |-> NoneType]

\* original.tofile(fileobj)
FileWrite ==
    /\ pc = "file"
    /\ render.pc = "made"
    /\ render' = [render EXCEPT !.pc = "written",
                                !.file = tofile(render.original)]
    /\ UNCHANGED <<pc, solid, ray, result, hits, scene>>

\* RenderResult.fromfile(fileobj), the file read from its start.
FileRead ==
    /\ pc = "file"
    /\ render.pc = "written"
    /\ render' = [render EXCEPT !.pc = "read",
                                !.loaded = fromfile(render.file)]
    /\ UNCHANGED <<pc, solid, ray, result, hits, scene>>

NextFile == FileWrite \/ FileRead

SpecFile == InitFile /\ [][NextFile]_vars

----------------------------------------------------------------------------
(* Shadow queries: is_obscured, _compute_diffuse and _compute_specular *)

\* The scenes queried: one box, and a sphere with a box behind it.
ShadowScenes ==
    {[Scene EXCEPT !.objects = <<BoxA>>],
     [Scene EXCEPT !.objects = <<SphereB, BoxFar>>]}

\* Where the point light is.
ShadowLights ==
    {Point(<<-96, 0, 0>>, WHITE, 10000), Point(<<-72, -96, 0>>, WHITE, 10000)}

\* The points a light is asked about: those of the grid whose ray from the
\* light is computed exactly for every solid of the scene.
ShadowPoints(sc, light) ==
    {p \in GridPoints :
        /\ ExactNormalized(VSub(p, light.position))
        /\ \A k \in 1..Len(sc.objects) :
              Exact(sc.objects[k], LightRay(p, light))}

\* What the light's ray to the point finds in the scene.
ShadowFound(sc, query) ==
    Scene_intersection(sc, LightRay(query.point, query.light), FALSE)

NoAnswers ==
    [is_obscured |-> [called |-> FALSE, raised |-> "None", value |-> FALSE],
     diffuse |-> NoneType, specular |-> NoneType]

InitShadow ==
    /\ pc = "shadow"
    /\ hits = <<>>
    /\ render = NoRender
    /\ result = NoAnswers
    /\ scene \in ShadowScenes
    /\ \E k \in 1..Len(scene.objects) : solid = scene.objects[k]
    /\ \E light \in ShadowLights :
        \E p \in ShadowPoints(scene, light) :
            ray = [light |-> light, point |-> p,
                   normal |-> VNeg(LightRay(p, light).direction)]

\* scene.is_obscured(light.position, point)
ShadowIsObscured ==
    /\ pc = "shadow"
    /\ ~result.is_obscured.called
    /\ result' = [result EXCEPT
                    !.is_obscured = is_obscured(scene, ray.light.position,
                                                ray.point)]
    /\ UNCHANGED <<pc, solid, ray, hits, scene, render>>

\* renderer._compute_diffuse(solid, point, normal, light, scene)
ShadowDiffuse ==
    /\ pc = "shadow"
    /\ result.diffuse = NoneType
    /\ result' = [result EXCEPT
                    !.diffuse = compute_diffuse(solid, ray.point, ray.normal,
                                                ray.light, scene)]
    /\ UNCHANGED <<pc, solid, ray, hits, scene, render>>

\* renderer._compute_specular(solid, point, normal, light, scene)
ShadowSpecular ==
    /\ pc = "shadow"
    /\ result.specular = NoneType
    /\ result' = [result EXCEPT
                    !.specular = compute_specular(solid, ray.point,
                                                  ray.normal, ray.light,
                                                  scene)]
    /\ UNCHANGED <<pc, solid, ray, hits, scene, render>>

NextShadow == ShadowIsObscured \/ ShadowDiffuse \/ ShadowSpecular

SpecShadow == InitShadow /\ [][NextShadow]_vars

----------------------------------------------------------------------------
(* bounding_box() called again and again on the solids of a CSG tree *)

MaxCalls == 3

\* The solids asked for their box: primitives, Intersections whose
\* children overlap and do not, an Inverse and a Difference.
BoxPool ==
    {SphereA, BoxA, CylY, PlaneY,
     Intersection(SphereA, SphereC, Matte),
     Intersection(BoxA, BoxB, Matte),
     Intersection(SphereB, SphereFar, Matte),
     Inverse(SphereA),
     Difference(SphereA, SphereB, Matte)}

InitBox ==
    /\ pc = "box"
    /\ solid \in BoxPool
    /\ ray = NoneType
    /\ result = NoneType
    /\ hits = <<>>
    /\ scene = Scene
    /\ render = BoxState(Paths(solid))

\* One call as hits records it: the solid called, what the call gave, and
\* how often _bounding_box of that solid has been called by its end.
BoxCalled(path, st) ==
    [path |-> path, value |-> st.value, calls |-> st.calls[path]]

\* SolidAt(solid, path).bounding_box()
BoxBoundingBox(path) ==
    /\ pc = "box"
    /\ Len(hits) < MaxCalls
    /\ render' = CallBoundingBox(render, SolidAt(solid, path), path)
    /\ hits' = Append(hits, BoxCalled(path, render'))
    /\ UNCHANGED <<pc, solid, ray, result, scene>>

NextBox == \E path \in Paths(solid) : BoxBoundingBox(path)

SpecBox == InitBox /\ [][NextBox]_vars

----------------------------------------------------------------------------
(* Reflecting a vector about a unit normal, again and again *)

\* The largest component of the vectors reflected, in units of DirDen^2.
VecMax == 1

\* How many times the vector is reflected about the same normal.
MaxReflections == 2

\* The vectors reflected: multiples of DirDen^2, for which the products
\* and the division by DirDen^2 in reflected are exact.
VectorInputs ==
    {<<DirDen * DirDen * a, DirDen * DirDen * b, DirDen * DirDen * c>> :
        a, b, c \in (0 - VecMax)..VecMax}

\* The unit normals: along the axes and the 3-4-5 diagonals.
UnitNormals == Directions \cup {<<0, 0, 5>>, <<0, 0, -5>>, <<0, 3, 4>>}

InitVector ==
    /\ pc = "vector"
    /\ solid = NoneType
    /\ scene = Scene
    /\ render = NoRender
    /\ result = <<>>
    /\ \E v \in VectorInputs, n \in UnitNormals :
          /\ ray = [self |-> v, normal |-> n]
          /\ hits = <<v>>

\* The vector reflected next: self, then the result of the last call.
Reflecting == IF result = <<>> THEN ray.self ELSE result[Len(result)]

\* Reflecting.reflected(normal): a new Vector is returned, the receiver and
\* the normal are not assigned to.
VectorReflect ==
    /\ pc = "vector"
    /\ Len(result) < MaxReflections
    /\ result' = Append(result, reflected(Reflecting, ray.normal))
    /\ UNCHANGED <<pc, solid, ray, hits, scene, render>>

NextVector == VectorReflect

SpecVector == InitVector /\ [][NextVector]_vars

----------------------------------------------------------------------------
(* Adding children to an ObjectGroup *)

\* How many add_object calls are made on the group.
MaxChildren == 3

\* The children added: solids with a finite and an infinite box, a
\* group, an Intersection whose box is None and an Inverse.
GroupPool ==
    {SphereB, BoxFar, SphereFar, BoxA, PlaneY,
     add_object(add_object(EmptyGroup, SphereB, 1), BoxFar, 1),
     Intersection(SphereB, SphereFar, Matte),
     Inverse(SphereA)}

\* self._bounding_box after add_object(object_), had the call returned.
GroupCombined(self, object_) ==
    IF self.bounding.kind = "None" THEN bounding_box(object_)
    ELSE combine(self.bounding, bounding_box(object_))

\* The group after add_object(object_): the object is in the set before
\* the box is touched, and an exception leaves the box as it was.  i is
\* the place a new element takes in the set's iteration order.
GroupAfterAdd(self, object_, i) ==
    [self EXCEPT
        !.objects = IF object_ \in Elements(@) THEN @
                    ELSE InsertAt(@, i, object_),
        !.bounding = IF IsRaised(GroupCombined(self, object_)) THEN @
                     ELSE GroupCombined(self, object_)]

InitGroup ==
    /\ pc = "group"
    /\ solid = EmptyGroup
    /\ ray = NoneType
    /\ result = NoneType
    /\ hits = <<>>
    /\ scene = Scene
    /\ render = NoRender

\* solid.add_object(object_); hits keeps the box the group had before each
\* call and result the exception of the last call, if it raised.
GroupAddObject(object_, i) ==
    /\ pc = "group"
    /\ Len(hits) < MaxChildren
    /\ i <= Len(solid.objects) + 1
    /\ solid' = GroupAfterAdd(solid, object_, i)
    /\ hits' = Append(hits, solid.bounding)
    /\ result' = IF IsRaised(GroupCombined(solid, object_))
                 THEN GroupCombined(solid, object_) ELSE NoneType
    /\ UNCHANGED <<pc, ray, scene, render>>

NextGroup ==
    \E object_ \in GroupPool, i \in 1..MaxChildren : GroupAddObject(object_, i)

SpecGroup == InitGroup /\ [][NextGroup]_vars

----------------------------------------------------------------------------
(* A ray cast at an ObjectGroup *)

\* ObjectGroup(a, b), its children in the order added.
GroupOf(a, b) == add_object(add_object(EmptyGroup, a, 1), b, 2)

\* The groups queried: two solids side by side, two apart, and a group
\* with a group for a child.
PruneGroups ==
    {GroupOf(SphereB, BoxFar), GroupOf(SphereFar, BoxB),
     GroupOf(GroupOf(SphereB, BoxB), SphereFar)}

\* The rays cast at a group: those computed exactly for its box and for
\* every solid under it.
PruneRays(group) ==
    {r \in {DefaultRay(s, d) : s \in GridPoints, d \in Directions} :
        /\ ExactBox(group.bounding, r)
        /\ \A obj \in {SphereB, SphereFar, BoxB, BoxFar} : Exact(obj, r)}

\* Line 48 of scene.py: the children are tested unless the distance the
\* group's box reports is None.
ChildrenTested(self, r) ==
    AxisAlignedBox_intersection(self.bounding, r, FALSE)[1] /= None

NotQueried ==
    [called |-> FALSE, tested |-> FALSE, found |-> <<NoneType, None, NoneV>>]

InitPrune ==
    /\ pc = "prune"
    /\ solid \in PruneGroups
    /\ ray \in PruneRays(solid)
    /\ result = NotQueried
    /\ hits = <<>>
    /\ scene = Scene
    /\ render = NoRender

\* solid.intersection(ray): whether the loop over the children ran, and
\* what the call returned.
PruneIntersection ==
    /\ pc = "prune"
    /\ ~result.called
    /\ result' = [called |-> TRUE,
                  tested |-> ChildrenTested(solid, ray),
                  found |-> ObjectGroup_intersection(solid, ray, TRUE,
                                                     NoneType)]
    /\ UNCHANGED <<pc, solid, ray, hits, scene, render>>

NextPrune == PruneIntersection

SpecPrune == InitPrune /\ [][NextPrune]_vars

----------------------------------------------------------------------------

-----------------------------------------------------------------------------
(* Calling intersection on a FuzzySphere and on a Sphere, frame by frame *)

\* How many frames the interpreter allows the call (sys.getrecursionlimit()
\* is 1000; the call chain repeats with a period of two frames).
RecursionLimit == 8

\* FuzzySphere inherits Sphere.__init__.
FuzzySphere(centre, radius, material) ==
    [kind |-> "FuzzySphere", centre |-> centre, radius |-> radius,
     material |-> material]

\* The Sphere with the same centre and radius.
SphereOf(s) == Sphere(s.centre, s.radius, s.material)

\* (Vector(random(), random(), random()) * 0.1).normalized(): a unit vector
\* with no negative component.
FuzzOffsets ==
    {<<5, 0, 0>>, <<0, 5, 0>>, <<0, 0, 5>>, <<3, 4, 0>>, <<4, 3, 0>>,
     <<0, 3, 4>>, <<0, 4, 3>>, <<3, 0, 4>>, <<4, 0, 3>>}

\* normal += offset, when a normal was asked for and there is one.
Perturbed(value, compute_normal) ==
    IF compute_normal /\ value[2] /= NoneV
    THEN {<<value[1], VAdd(value[2], offset)>> : offset \in FuzzOffsets}
    ELSE {value}

FuzzySolids ==
    {SphereA, SphereB,
     FuzzySphere(SphereA.centre, SphereA.radius, Matte),
     FuzzySphere(SphereB.centre, SphereB.radius, Matte)}

InitFuzzy ==
    /\ pc = "fuzzy"
    /\ solid \in FuzzySolids
    /\ ray \in PrimaryRays(SphereOf(solid))
    /\ result = NotCalled
    /\ hits = <<>>
    /\ scene = Scene
    /\ \E compute_normal \in BOOLEAN :
          render = [pc |-> "idle", compute_normal |-> compute_normal,
                    value |-> NoResult]

\* The frame running.
Top == hits[Len(hits)]

\* A call: a new frame, or RecursionError when the interpreter allows no
\* more; nothing in the chain catches the exception.
Push(frame) ==
    IF Len(hits) >= RecursionLimit
    THEN /\ hits' = <<>>
         /\ result' = Raises("RecursionError")
         /\ render' = [render EXCEPT !.pc = "done"]
    ELSE /\ hits' = Append(hits, frame)
         /\ UNCHANGED <<result, render>>

\* solid.intersection(ray, compute_normal): neither Sphere nor FuzzySphere
\* defines intersection, the method is Primitive's.
FuzzyCall ==
    /\ pc = "fuzzy"
    /\ render.pc = "idle"
    /\ hits' = <<"Primitive.intersection">>
    /\ render' = [render EXCEPT !.pc = "calling"]
    /\ UNCHANGED <<pc, solid, ray, result, scene>>

\* Primitive.intersection calls self._intersection: the method of the
\* object's own class.
PrimitiveIntersection ==
    /\ pc = "fuzzy"
    /\ render.pc = "calling"
    /\ Top = "Primitive.intersection"
    /\ Push(IF solid.kind = "FuzzySphere" THEN "FuzzySphere._intersection"
            ELSE "Sphere._intersection")
    /\ UNCHANGED <<pc, solid, ray, scene>>

\* FuzzySphere._intersection calls super(FuzzySphere, self).intersection,
\* which is Primitive.intersection again, with the same self.
FuzzySphereIntersection ==
    /\ pc = "fuzzy"
    /\ render.pc = "calling"
    /\ Top = "FuzzySphere._intersection"
    /\ Push("Primitive.intersection")
    /\ UNCHANGED <<pc, solid, ray, scene>>

\* Sphere._intersection computes the hit and returns.
SphereIntersection ==
    /\ pc = "fuzzy"
    /\ render.pc = "calling"
    /\ Top = "Sphere._intersection"
    /\ hits' = SubSeq(hits, 1, Len(hits) - 1)
    /\ render' = [render EXCEPT
                    !.pc = "returning",
                    !.value = Sphere_intersection(SphereOf(solid), ray,
                                                  render.compute_normal)]
    /\ UNCHANGED <<pc, solid, ray, result, scene>>

\* A frame that got its callee's value returns: Primitive.intersection
\* returns the pair as it is, FuzzySphere._intersection adds the offset to
\* the normal first.
FrameReturn ==
    /\ pc = "fuzzy"
    /\ render.pc = "returning"
    /\ hits /= <<>>
    /\ hits' = SubSeq(hits, 1, Len(hits) - 1)
    /\ \E value \in (IF Top = "FuzzySphere._intersection"
                     THEN Perturbed(render.value, render.compute_normal)
                     ELSE {render.value}) :
          render' = [render EXCEPT !.value = value]
    /\ UNCHANGED <<pc, solid, ray, result, scene>>

\* The caller has the value.
FuzzyReturned ==
    /\ pc = "fuzzy"
    /\ render.pc = "returning"
    /\ hits = <<>>
    /\ result' = Returned(solid, render.value[1], render.value[2])
    /\ render' = [render EXCEPT !.pc = "done"]
    /\ UNCHANGED <<pc, solid, ray, hits, scene>>

NextFuzzy ==
    \/ FuzzyCall
    \/ PrimitiveIntersection
    \/ FuzzySphereIntersection
    \/ SphereIntersection
    \/ FrameReturn
    \/ FuzzyReturned

SpecFuzzy == InitFuzzy /\ [][NextFuzzy]_vars

----------------------------------------------------------------------------
(* Geometry the claims are stated in (not code) *)

\* Whether point p is strictly inside, or inside or on the surface of, a
\* sphere, a box or the half-space behind a plane.
StrictlyInside(obj, p) ==
    CASE obj.kind = "Sphere" ->
            norm2(VSub(p, obj.centre)) < obj.radius * obj.radius
      [] obj.kind = "AxisAlignedBox" ->
            \A i \in 1..3 : obj.min[i] < p[i] /\ p[i] < obj.max[i]
      [] obj.kind = "Plane" -> Dot(VSub(p, obj.point), obj.normal) < 0

InsideOrOn(obj, p) ==
    CASE obj.kind = "Sphere" ->
            norm2(VSub(p, obj.centre)) <= obj.radius * obj.radius
      [] obj.kind = "AxisAlignedBox" ->
            \A i \in 1..3 : obj.min[i] <= p[i] /\ p[i] <= obj.max[i]
      [] obj.kind = "Plane" -> Dot(VSub(p, obj.point), obj.normal) <= 0

OnSurface(obj, p) == InsideOrOn(obj, p) /\ ~StrictlyInside(obj, p)

\* A distance that is a hit: neither None nor the INFINITY a box returns.
IsHit(d) == d /= None /\ d < INFINITY

\* The ray was cast and the result is in `result`.
CastDone == pc = "cast"

\* The source of the primary ray of the run.
PrimarySource == IF hits = <<>> THEN ray.source ELSE hits[1].source

\* Whether the line of the ray, from the primary source on, passes through
\* the strict inside of obj (sampled every DirDen units of distance).
PassesThrough(obj) ==
    \E k \in 1..(8 * GridMax) :
        StrictlyInside(obj, VAdd(PrimarySource, VMul(ray.direction, k)))

----------------------------------------------------------------------------
(* C2 *)

PrimitiveKinds ==
    {"AxisAlignedBox", "Sphere", "Plane", "InfiniteCylinder", "Cylinder"}

\* C2: for every primitive and ray, a returned distance that is not None
\* lies strictly inside (ray.min_distance, ray.max_distance).
C2_DistanceInRange ==
    (CastDone /\ solid.kind \in PrimitiveKinds /\ result[1] /= None)
        => InRange(ray, result[1])

----------------------------------------------------------------------------
(* C3 *)

\* The ray has been followed to its end: the last cast reported no hit.
Followed == CastDone /\ ~IsHit(result[1])

\* C3: following a ray from outside A through Difference(A, B), B strictly
\* inside A, reports exactly two crossings, A's outer face and then B's
\* face, and no hit point strictly inside B.
C3_TwoCrossings ==
    (/\ Followed
     /\ solid \in NestedDifferences
     /\ ~InsideOrOn(solid.object1, PrimarySource)
     /\ PassesThrough(solid.object2.object))
        => /\ Len(hits) = 2
           /\ OnSurface(solid.object1, hits[1].point)
           /\ OnSurface(solid.object2.object, hits[2].point)
           /\ \A i \in 1..Len(hits) :
                ~StrictlyInside(solid.object2.object, hits[i].point)

----------------------------------------------------------------------------
(* C4 *)

BoundedKinds == {"AxisAlignedBox", "Sphere", "Plane"}

\* C4: every hit point an Intersection reports lies inside or on the surface
\* of both children; for two solids with no common point it reports no hit.
C4_BooleanAnd ==
    (/\ CastDone
     /\ solid.kind = "Intersection"
     /\ solid.object1.kind \in BoundedKinds
     /\ solid.object2.kind \in BoundedKinds)
        => /\ IsHit(result[1]) =>
                /\ InsideOrOn(solid.object1, point(ray, result[1]))
                /\ InsideOrOn(solid.object2, point(ray, result[1]))
           /\ solid \in DisjointIntersections => ~IsHit(result[1])

----------------------------------------------------------------------------
(* C5, C6, C7: the decision table of Intersection._intersection *)

\* The casts and classifications of the cast that produced `result`.
Casts == IntersectionCasts(solid, ray)

IntersectionCast == CastDone /\ solid.kind = "Intersection"

\* C5: inside neither child: (None, None) if either child reports no
\* forward hit, otherwise the farther of the two forward hits with that
\* child's normal.
C5_InsideNeither ==
    (IntersectionCast /\ ~Casts.inside1 /\ ~Casts.inside2)
        => IF ~IsHit(Casts.fwd1[1]) \/ ~IsHit(Casts.fwd2[1])
           THEN result = <<None, NoneV>>
           ELSE /\ result \in {Casts.fwd1, Casts.fwd2}
                /\ result[1] = Max2(Casts.fwd1[1], Casts.fwd2[1])

----------------------------------------------------------------------------
(* C13 *)

\* The distances the claim speaks of: over every pair of planes the ray is
\* not parallel to, the distance to each plane, when it lies inside the
\* ray's interval and the point there lies within the box's extent on the
\* other two axes.
ValidPlaneDistances(box, r) ==
    {d \in UNION {{PlaneDistance(box.min[i], r.source[i], r.direction[i]),
                   PlaneDistance(box.max[i], r.source[i], r.direction[i])} :
                     i \in {a \in 1..3 : r.direction[a] /= 0}} :
        /\ InRange(r, d)
        /\ \A other \in 1..3 :
              BoxWithin(box, other,
                        r.source[other]
                        + Quot(d * r.direction[other], DirDen))}

\* C13: the box's result is the least of the valid plane distances over
\* all three pairs of planes, and no hit when there is none.
C13_MinOverAllPairs ==
    (CastDone /\ solid.kind = "AxisAlignedBox")
        => IF ValidPlaneDistances(solid, ray) = {}
           THEN ~IsHit(result[1])
           ELSE /\ result[1] \in ValidPlaneDistances(solid, ray)
                /\ \A d \in ValidPlaneDistances(solid, ray) : result[1] <= d

----------------------------------------------------------------------------
(* C22: the roots of the sphere *)

\* No distance along a ray of the model is farther than this.
RootMax == 4 * GridStep * GridMax

\* DirDen times the projection of centre - source on the ray's direction.
SphereProjection(s, r) == Dot(r.direction, VSub(s.centre, r.source))

\* DirDen^2 times the discriminant projection^2 - diff2 + radius^2.
SphereDisc(s, r) ==
    SphereProjection(s, r) * SphereProjection(s, r)
        - DirDen * DirDen * norm2(VSub(s.centre, r.source))
        + DirDen * DirDen * s.radius * s.radius

\* The roots projection +- sqrt(discriminant) that lie strictly inside
\* (min_distance, max_distance): the distances d with
\* (d - projection)^2 = discriminant.
SphereRootsInside(s, r) ==
    {d \in (0 - RootMax)..RootMax :
        /\ (DirDen * d - SphereProjection(s, r))
              * (DirDen * d - SphereProjection(s, r)) = SphereDisc(s, r)
        /\ r.min_distance < d
        /\ d < r.max_distance}

\* C22: Sphere.intersection returns no hit when the discriminant is
\* negative or neither root lies strictly inside the ray's interval, and
\* otherwise the smallest root that does.
C22_SmallerRootInside ==
    (CastDone /\ solid.kind = "Sphere")
        => IF SphereDisc(solid, ray) < 0 \/ SphereRootsInside(solid, ray) = {}
           THEN result = <<None, NoneV>>
           ELSE /\ result[1] \in SphereRootsInside(solid, ray)
                /\ \A d \in SphereRootsInside(solid, ray) : result[1] <= d

\* A state where C22's case happens: a ray cast from inside a sphere, with
\* one root behind the source and the other returned.
C22_Witness ==
    /\ CastDone
    /\ solid.kind = "Sphere"
    /\ SphereDisc(solid, ray) > 0
    /\ Cardinality(SphereRootsInside(solid, ray)) = 1
    /\ result[1] \in SphereRootsInside(solid, ray)

----------------------------------------------------------------------------
(* C23: the roots of the infinite cylinder *)

\* The roots of a lambda^2 + 2 b_2 lambda + c = 0 that lie strictly inside
\* (min_distance, max_distance), for d and diff as the code projects them;
\* none when the ray is parallel to the axis (a = 0).
QuadraticRootsInside(d, diff, radius, r) ==
    {lambda \in (0 - RootMax)..RootMax :
        /\ norm2(d) /= 0
        /\ norm2(d) * lambda * lambda + 2 * DirDen * Dot(d, diff) * lambda
             + DirDen * DirDen * (norm2(diff) - radius * radius) = 0
        /\ r.min_distance < lambda
        /\ lambda < r.max_distance}

CylinderRootsInside(cyl, r) ==
    QuadraticRootsInside(
        project_out(r.direction, cyl.axis_direction),
        project_out(VSub(r.source, cyl.axis_point), cyl.axis_direction),
        cyl.radius, r)

\* C23: InfiniteCylinder.intersection returns the smallest root of the
\* quadratic that lies strictly inside the ray's interval (the larger root
\* when the smaller is out of range), and no hit only if neither root is
\* in range.
C23_CloserRootInside ==
    (CastDone /\ solid.kind = "InfiniteCylinder")
        => IF CylinderRootsInside(solid, ray) = {} THEN result[1] = None
           ELSE /\ result[1] \in CylinderRootsInside(solid, ray)
                /\ \A d \in CylinderRootsInside(solid, ray) : result[1] <= d

\* The part of C23 that holds: a hit reported is a root inside the
\* interval, and when both roots are inside it is the smaller.
C23_HitIsSmallerRoot ==
    (CastDone /\ solid.kind = "InfiniteCylinder")
        => /\ result[1] /= None
                => /\ result[1] \in CylinderRootsInside(solid, ray)
                   /\ \A d \in CylinderRootsInside(solid, ray) : result[1] <= d
           /\ Cardinality(CylinderRootsInside(solid, ray)) = 2
                => result[1] /= None

----------------------------------------------------------------------------
(* C24: degenerate rays *)

\* The ray runs along the plane.
ParallelToPlane(p, r) == Dot(r.direction, p.normal) = 0

\* The ray runs along the cylinder's axis.
ParallelToAxis(cyl, r) ==
    r.direction \in {cyl.axis_direction, VNeg(cyl.axis_direction)}

\* The ray touches the sphere: the discriminant is exactly zero.
TangentToSphere(s, r) == SphereDisc(s, r) = 0

\* The ray touches the cylinder: the discriminant b_2^2 - a c of
\* a lambda^2 + 2 b_2 lambda + c is exactly zero, for d and diff as the
\* code projects them.
ZeroDiscriminant(d, diff, radius) ==
    /\ norm2(d) /= 0
    /\ Dot(d, diff) * Dot(d, diff)
         = norm2(d) * (norm2(diff) - radius * radius)

TangentToCylinder(cyl, r) ==
    ZeroDiscriminant(
        project_out(r.direction, cyl.axis_direction),
        project_out(VSub(r.source, cyl.axis_point), cyl.axis_direction),
        cyl.radius)

\* The result did not come from the pair of box planes normal to axis i.
NotFromPair(res, i) ==
    res[1] = None \/ res[1] >= INFINITY \/ res[2] = NoneV \/ res[2][i] = 0

\* A ray parallel to a plane, to a pair of box planes or to a cylinder's
\* axis yields no hit from that test.
ParallelIsNoHit ==
    /\ (solid.kind = "Plane" /\ ParallelToPlane(solid, ray))
            => result[1] = None
    /\ solid.kind = "AxisAlignedBox"
            => \A i \in 1..3 : ray.direction[i] = 0 => NotFromPair(result, i)
    /\ (solid.kind = "InfiniteCylinder" /\ ParallelToAxis(solid, ray))
            => result = <<None, NoneV>>

\* C24 as stated: a ray parallel to a plane, to a box axis pair or to a
\* cylinder's axis, and a ray for which a sphere's or cylinder's
\* discriminant is exactly zero, each yield no hit.
C24_DegenerateIsNoHit ==
    CastDone
        => /\ ParallelIsNoHit
           /\ (solid.kind = "Sphere" /\ TangentToSphere(solid, ray))
                    => result[1] = None
           /\ (solid.kind = "InfiniteCylinder"
               /\ TangentToCylinder(solid, ray))
                    => result[1] = None

\* C24, amended: the parallel rays yield no hit from that test; a tangent
\* ray yields the point where it touches, when the distance to it lies
\* strictly inside the ray's interval, and no hit otherwise.
C24_DegenerateResolved ==
    CastDone
        => /\ ParallelIsNoHit
           /\ (solid.kind = "Sphere" /\ TangentToSphere(solid, ray))
                => /\ Cardinality(SphereRootsInside(solid, ray)) <= 1
                   /\ IF SphereRootsInside(solid, ray) = {}
                      THEN result[1] = None
                      ELSE result[1] \in SphereRootsInside(solid, ray)
           /\ (solid.kind = "InfiniteCylinder"
               /\ TangentToCylinder(solid, ray))
                => /\ Cardinality(CylinderRootsInside(solid, ray)) <= 1
                   /\ IF CylinderRootsInside(solid, ray) = {}
                      THEN result[1] = None
                      ELSE result[1] \in CylinderRootsInside(solid, ray)

\* A state where C24's case happens: a ray that touches a cylinder ahead
\* of its source, cast.
C24_Witness ==
    /\ CastDone
    /\ solid.kind = "InfiniteCylinder"
    /\ TangentToCylinder(solid, ray)
    /\ CylinderRootsInside(solid, ray) /= {}

----------------------------------------------------------------------------
(* C28: a Difference away from the solid taken out *)

\* The line of the ray does not meet obj, ahead of the source or behind it.
LineMisses(obj, r) ==
    /\ ~IsHit(intersection(obj, r, TRUE)[1])
    /\ ~IsHit(intersection(obj, NegRay(r), TRUE)[1])

\* The ray hits obj from outside: the normal at the hit faces the source.
HitsFromOutside(obj, r) ==
    /\ IsHit(intersection(obj, r, TRUE)[1])
    /\ Dot(intersection(obj, r, TRUE)[2], r.direction) < 0

\* C28: for Difference(A, B), a ray whose source is outside A and B, that
\* hits A from outside and whose line does not meet B, reports A's forward
\* hit.
C28_OutsideTakenOut ==
    (/\ CastDone
     /\ solid \in NestedDifferences
     /\ ~InsideOrOn(solid.object1, ray.source)
     /\ ~InsideOrOn(solid.object2.object, ray.source)
     /\ HitsFromOutside(solid.object1, ray)
     /\ LineMisses(solid.object2.object, ray))
        => result = intersection(solid.object1, ray, TRUE)

----------------------------------------------------------------------------
(* C29: hits lie in the bounding box *)

\* The point is within the box on every axis.
Encloses(box, p) ==
    /\ box.kind = "AxisAlignedBox"
    /\ \A a \in 1..3 : box.min[a] <= p[a] /\ p[a] <= box.max[a]

\* C29: every point at which a solid's intersection() reports a hit lies in
\* the box its bounding_box() returns; the box is not absent (None, or an
\* exception) when a hit is reported.
C29_HitsInBox ==
    (CastDone /\ IsHit(result[1]))
        => Encloses(bounding_box(solid), point(ray, result[1]))

\* The hits of the primitives lie in their boxes.
C29_PrimitiveHitsInBox ==
    (CastDone /\ IsHit(result[1]) /\ solid.kind \in PrimitiveKinds)
        => Encloses(bounding_box(solid), point(ray, result[1]))

----------------------------------------------------------------------------
(* The two scene queries *)

BothQueried == result.naive.called /\ result.old.called

\* C1: for any scene and any ray, once both Scene.intersection_old and
\* Scene.intersection have been called, neither raised and they agree:
\* both report no hit, or both report the same object at the same
\* distance.
C1_QueriesAgree ==
    (pc = "scene" /\ BothQueried) =>
        /\ result.naive.raised = "None"
        /\ result.old.raised = "None"
        /\ result.old.distance = result.naive.distance
        /\ result.old.obj = result.naive.obj

----------------------------------------------------------------------------
(* C26: the tree _compute_tree builds *)

RECURSIVE Leaves(_)

\* The solids at the leaves of a tree.
Leaves(tree) ==
    IF tree.kind = "ObjectGroup"
    THEN UNION {Leaves(tree.objects[i]) : i \in 1..Len(tree.objects)}
    ELSE IF tree.kind = "None" THEN {}
    ELSE {tree}

RECURSIVE InternalGroups(_)

\* How many ObjectGroups a tree holds.
InternalGroups(tree) ==
    IF tree.kind /= "ObjectGroup" THEN 0
    ELSE 1 + InternalGroups(tree.objects[1])
           + (IF Len(tree.objects) > 1 THEN InternalGroups(tree.objects[2])
              ELSE 0)

RECURSIVE LeafCount(_)

\* How many leaves a tree has, a solid counted as often as it appears.
LeafCount(tree) ==
    IF tree.kind /= "ObjectGroup" THEN 1
    ELSE LeafCount(tree.objects[1])
         + (IF Len(tree.objects) > 1 THEN LeafCount(tree.objects[2]) ELSE 0)

RECURSIVE Binary(_)

\* Every ObjectGroup of the tree has exactly two children.
Binary(tree) ==
    tree.kind = "ObjectGroup"
        => /\ Len(tree.objects) = 2
           /\ Binary(tree.objects[1])
           /\ Binary(tree.objects[2])

\* A single root: binary, with n - 1 groups and each of the n solids of
\* the scene once as a leaf.
TreeOf(tree, objects) ==
    /\ tree.kind = "ObjectGroup"
    /\ Binary(tree)
    /\ InternalGroups(tree) = Len(objects) - 1
    /\ LeafCount(tree) = Len(objects)
    /\ Leaves(tree) = Elements(objects)

\* C26: for a scene of two solids or more, the first accelerated query
\* leaves the tree built: a single root, every group with exactly two
\* children, n - 1 groups, every solid of the scene once as a leaf.
C26_TreeBuilt ==
    (pc = "scene" /\ result.old.called /\ Len(scene.objects) >= 2)
        => TreeOf(scene.tree, scene.objects)

\* C26 for the scenes in which every solid has a box: bounding_box()
\* returns an AxisAlignedBox.
C26_TreeBuiltOfBoxed ==
    (/\ pc = "scene"
     /\ result.old.called
     /\ Len(scene.objects) >= 2
     /\ \A obj \in Elements(scene.objects) :
            bounding_box(obj).kind = "AxisAlignedBox")
        => TreeOf(scene.tree, scene.objects)

----------------------------------------------------------------------------
(* C8 to C12: Renderer.render and _compute_colour *)

Rendering == pc = "render" /\ render.pc /= "idle"

RenderRaised == pc = "render" /\ render.pc = "raised"

\* What _compute_colour produces for triple k of the camera's rays.
ShadedAt(k) ==
    compute_colour(render.self, render.rays[k][3], scene, 0, NoneType)

\* The cells of the result that belong to triple k's pixel.
PixelCells(k) ==
    {index(render.result, render.rays[k][1], render.rays[k][2], c) + 1 :
        c \in Elements(RenderComponents)} \cap DOMAIN render.result.data

\* C8: render computes a colour for every triple the camera yields and
\* returns a RenderResult in which each pixel holds the colour computed for
\* its ray: no call of render ends by raising, and a returned result holds
\* every pixel's colour.
C8_EveryPixelStored ==
    /\ ~RenderRaised
    /\ (pc = "render" /\ render.pc = "returned") =>
          \A k \in 1..Len(render.rays) : \A c \in 1..Len(RenderComponents) :
              getitem(render.returned, render.rays[k][1], render.rays[k][2],
                      RenderComponents[c]) = ShadedAt(k).colour[c]

\* C9: an exception raised while a pixel's colour is computed is never
\* passed over (every pixel the loop went past was shaded without raising);
\* the pass that met it raised ValueError naming that pixel's (x, y), with
\* the exception as its cause; nothing was returned and the cells of that
\* pixel and of every later one are as RenderResult.__init__ left them.
C9_WrappedAndAborted ==
    Rendering =>
        /\ \A k \in 1..render.i : ShadedAt(k).raised = "None"
        /\ (/\ render.pc /= "loop"
            /\ render.i < Len(render.rays)
            /\ ShadedAt(render.i + 1).raised /= "None") =>
              /\ render.pc = "raised"
              /\ render.error.type = "ValueError"
              /\ render.error.pixel = <<render.rays[render.i + 1][1],
                                        render.rays[render.i + 1][2]>>
              /\ render.error.cause = ShadedAt(render.i + 1).raised
              /\ render.returned = NoneType
              /\ \A k \in (render.i + 1)..Len(render.rays) :
                    \A cell \in PixelCells(k) : render.result.data[cell] = 0

\* A state where C9's case happens: the colour of pixel (1, 0) raised, the
\* camera had more pixels to yield, and render raised.
C9_Witness ==
    /\ RenderRaised
    /\ ShadedAt(render.i + 1).raised /= "None"
    /\ render.error.pixel = <<1, 0>>
    /\ Len(render.rays) > render.i + 1

\* The triples _compute_colour was called for: those the loop went past,
\* and the one it raised on.
ShadedTriples ==
    1..(IF render.pc = "raised" /\ render.error.type = "ValueError"
        THEN render.i + 1 ELSE render.i)

\* C10: for a primary ray (depth 0) that hits an object, _compute_colour
\* casts a reflected ray if and only if the object's reflectivity is
\* positive and 0 < recursion_depth.
C10_ReflectedIff ==
    Rendering =>
        \A k \in ShadedTriples :
            LET found == Scene_intersection(scene, render.rays[k][3], TRUE)
            IN  found.distance /= None =>
                  ((ShadedAt(k).reflected > 0)
                   <=> (/\ found.obj.material.reflectivity > 0
                        /\ 0 < render.self.recursion_depth))

----------------------------------------------------------------------------
(* C14: the scene's tree *)

\* C14: once accelerated queries have been made of a scene, the first of
\* them built the tree, from the solids the scene held at that moment; no
\* later query built one; every later query left the same tree, and so did
\* every solid added since.
C14_BuiltOnce ==
    (pc = "lazy" /\ hits /= <<>>) =>
        /\ hits[1].built
        /\ Leaves(hits[1].tree) = Elements(hits[1].objects)
        /\ \A n \in 2..Len(hits) :
              ~hits[n].built /\ hits[n].tree = hits[1].tree
        /\ scene.tree = hits[1].tree

----------------------------------------------------------------------------
(* C15: concurrent first access *)

\* C15: when the workers have all made their first access to the same
\* memoized value, the tree or the box, exactly one computation of it was
\* made and all of them ended with the same object.
C15_ComputedByOne ==
    pc = "workers" =>
        /\ (\A w \in Workers : result[w].at = "queried") =>
              /\ Cardinality(Computations("tree")) = 1
              /\ \A v, w \in Workers : result[v].saw = result[w].saw
        /\ (\A w \in Workers : result[w].at = "boxed") =>
              /\ Cardinality(Computations("box")) = 1
              /\ \A v, w \in Workers : result[v].saw = result[w].saw

----------------------------------------------------------------------------
(* C16: concurrent writes of a RenderResult *)

\* The writes made so far, by all the workers.
Written ==
    UNION {{WritesOf(w, render)[n] : n \in 1..render.done[w]} : w \in Workers}

RECURSIVE WriteAll(_, _, _, _)

\* One worker making the first n writes of the picture in order.
WriteAll(self, components, writes, n) ==
    IF n = 0 THEN self
    ELSE Write(WriteAll(self, components, writes, n - 1), components,
               writes[n])

\* The result of one worker making every write in order.
SequentialResult ==
    WriteAll(RenderResult(render.result.width, render.result.height,
                          render.components),
             render.components,
             AllWrites(render.result.width, render.result.height,
                       render.components),
             render.result.width * render.result.height
             * Len(render.components))

AllWritten == \A w \in Workers : render.done[w] = Len(WritesOf(w, render))

\* C16: under every interleaving of the workers' writes, each cell
\* (x, y, component) holds its own value once written and the 0.0 it
\* started with until then, whatever was written elsewhere; and when all
\* the writes are made the buffer equals the one a single worker makes.
C16_WritesIndependent ==
    pc = "buffer" =>
        /\ ~IsRaised(render.result)
        /\ \A x \in 0..(render.result.width - 1),
              y \in 0..(render.result.height - 1),
              k \in 1..Len(render.components) :
                getitem(render.result, x, y, render.components[k])
                    = IF <<x, y, k>> \in Written THEN ValueOf(x, y, k) ELSE 0
        /\ AllWritten => render.result = SequentialResult

\* A state where C16's case happens: a picture of several rows and columns
\* wholly written, every worker having made some of the writes.
C16_Witness ==
    /\ pc = "buffer"
    /\ AllWritten
    /\ render.result.width > 1
    /\ render.result.height > 1
    /\ \A w \in Workers : render.done[w] > 0

----------------------------------------------------------------------------
(* C17: tofile and fromfile *)

\* The result read back is the one written: same width and height, same
\* index for every component, and the same value at every (x, y,
\* component).
RoundTrip ==
    /\ ~IsRaised(render.loaded)
    /\ render.loaded.width = render.original.width
    /\ render.loaded.height = render.original.height
    /\ render.loaded.component_index = render.original.component_index
    /\ \A x \in 0..(render.original.width - 1),
          y \in 0..(render.original.height - 1),
          c \in DOMAIN render.original.component_index :
            getitem(render.loaded, x, y, c) = getitem(render.original, x, y, c)

\* C17 as stated: for every RenderResult, fromfile of the output of tofile
\* is a result with the same width, height, component indices and values.
C17_RoundTripAny == (pc = "file" /\ render.pc = "read") => RoundTrip

\* No component is named twice in the list.
NamedOnce(components) ==
    \A j, k \in 1..Len(components) :
        components[j] = components[k] => j = k

\* C17, amended: for every RenderResult whose component list names no
\* component twice, fromfile of the output of tofile is a result with the
\* same width, height, component indices and values.
C17_RoundTrip ==
    (pc = "file" /\ render.pc = "read" /\ NamedOnce(render.components))
        => RoundTrip

\* A state where C17's case happens: a picture of several pixels and three
\* components, not in the order of the enum, written and read back.
C17_Witness ==
    /\ pc = "file"
    /\ render.pc = "read"
    /\ NamedOnce(render.components)
    /\ render.original.width > 1
    /\ render.original.height > 1
    /\ render.components = <<"blue", "green", "red">>
    /\ render.file /= <<>>

----------------------------------------------------------------------------
(* C18: a shadow query that finds nothing *)

\* The light's ray to the point meets no solid of the scene.
NoOccluder ==
    /\ ShadowFound(scene, ray).raised = "None"
    /\ ShadowFound(scene, ray).distance = None

\* C18: when the shadow query from the light toward the point finds no
\* intersection at all, is_obscured returns False without raising, and
\* _compute_diffuse and _compute_specular return without raising and not
\* through their obscured branch.
C18_NoOccluderIsLit ==
    (pc = "shadow" /\ NoOccluder)
        => /\ result.is_obscured.called
                => /\ result.is_obscured.raised = "None"
                   /\ ~result.is_obscured.value
           /\ \A term \in {result.diffuse, result.specular} :
                term /= NoneType
                    => /\ term.raised = "None"
                       /\ ~Obscured(solid, ray.point, ray.light,
                                    ShadowFound(scene, ray))

\* The part of C18 about is_obscured alone, were its arguments hashable.
C18_WrappedReturnsFalse ==
    (pc = "shadow" /\ NoOccluder)
        => /\ is_obscured_wrapped(scene, ray.light.position,
                                  ray.point).raised = "None"
           /\ ~is_obscured_wrapped(scene, ray.light.position, ray.point).value

\* The part of C18 about the two terms' raising: they never raise.
C18_TermsDoNotRaise ==
    pc = "shadow"
        => \A term \in {result.diffuse, result.specular} :
              term /= NoneType => term.raised = "None"

----------------------------------------------------------------------------
(* C19 and C20: bounding boxes *)

\* C19: bounding_box() of an Inverse returns, without raising, the box of
\* the solid it wraps; bounding_box() of a Difference does not raise.
C19_InverseProxiesBox ==
    pc = "box"
        => \A k \in 1..Len(hits) :
              /\ SolidAt(solid, hits[k].path).kind = "Inverse"
                    => /\ ~IsRaised(hits[k].value.box)
                       /\ hits[k].value.box
                            = bounding_box(SolidAt(solid,
                                                   hits[k].path).object)
              /\ (/\ SolidAt(solid, hits[k].path).kind = "Intersection"
                  /\ SolidAt(solid, hits[k].path).object2.kind = "Inverse")
                    => ~IsRaised(hits[k].value.box)

\* C20: _bounding_box of a solid is called once at most, and every call of
\* bounding_box() after the first returns the object the first returned.
C20_ComputedOnce ==
    pc = "box"
        => /\ \A p \in Paths(solid) : render.calls[p] <= 1
           /\ \A j, k \in 1..Len(hits) :
                (j < k /\ hits[j].path = hits[k].path)
                    => /\ ~IsRaised(hits[j].value.box)
                       /\ hits[k].value = hits[j].value

\* C20 for the solids whose box is a box: a solid that once returned an
\* AxisAlignedBox returns that object ever after, its _bounding_box called
\* once.
C20_BoxKept ==
    pc = "box"
        => \A j, k \in 1..Len(hits) :
              (/\ j < k
               /\ hits[j].path = hits[k].path
               /\ ~IsRaised(hits[j].value.box)
               /\ hits[j].value.box /= NoneType)
                    => /\ hits[k].value = hits[j].value
                       /\ hits[k].calls = 1

\* C20 for the trees without an Inverse.
C20_ComputedOnceWithoutInverse ==
    (\A p \in Paths(solid) : SolidAt(solid, p).kind /= "Inverse")
        => C20_ComputedOnce

----------------------------------------------------------------------------
(* C21: Vector.reflected *)

\* The vector the k-th reflection was applied to.
ReflectedFrom(k) == IF k = 1 THEN ray.self ELSE result[k - 1]

----------------------------------------------------------------------------
(* C25: the box of an ObjectGroup *)

\* The boxes of the children of a group that have one: an Intersection of
\* solids that do not overlap has None.
ChildBoxes(group) ==
    {bounding_box(child) : child \in Elements(group.objects)}
        \ {NoneType}

\* box is the union of boxes: on every axis its minimum is the least of
\* their minima and its maximum the greatest of their maxima.
IsUnionOf(box, boxes) ==
    IF boxes = {} THEN box = NoneType
    ELSE /\ box /= NoneType
         /\ \A a \in 1..3 :
              /\ \E b \in boxes : box.min[a] = b.min[a]
              /\ \A b \in boxes : box.min[a] <= b.min[a]
              /\ \E b \in boxes : box.max[a] = b.max[a]
              /\ \A b \in boxes : box.max[a] >= b.max[a]

\* inner lies within outer on every axis; no box lies within every box.
BoxInside(inner, outer) ==
    \/ inner = NoneType
    \/ /\ outer /= NoneType
       /\ \A a \in 1..3 :
            outer.min[a] <= inner.min[a] /\ inner.max[a] <= outer.max[a]

\* The box of the group never shrank.
NeverShrunk ==
    /\ \A k \in 1..(Len(hits) - 1) : BoxInside(hits[k], hits[k + 1])
    /\ hits /= <<>> => BoxInside(hits[Len(hits)], solid.bounding)

\* C25: after any sequence of add_object calls the box of the group is the
\* union of the boxes of all its children, and no call shrank it.
C25_BoxIsUnion ==
    pc = "group"
        => /\ \A child \in Elements(solid.objects) :
                ~IsRaised(bounding_box(child))
           /\ IsUnionOf(solid.bounding, ChildBoxes(solid))
           /\ NeverShrunk

\* C25 for the children whose bounding_box() returns: the box of the group
\* is the union of their boxes, and no call shrank it.
C25_BoxIsUnionOfReturned ==
    pc = "group"
        => /\ IsUnionOf(solid.bounding,
                        {b \in ChildBoxes(solid) : ~IsRaised(b)})
           /\ NeverShrunk

----------------------------------------------------------------------------
(* C27: the box test of a group *)

\* The ray meets the box: some plane of it is crossed strictly inside the
\* ray's interval, at a point within the box's extent.
MeetsBox(box, r) == ValidPlaneDistances(box, r) /= {}

\* C27: a group whose box the ray does not meet returns (None, None, None)
\* without testing any child; the children are tested only when the ray
\* meets the box.
C27_BoxTestPrunes ==
    (pc = "prune" /\ result.called)
        => /\ ~MeetsBox(solid.bounding, ray)
                => /\ ~result.tested
                   /\ result.found = <<NoneType, None, NoneV>>
           /\ result.tested => MeetsBox(solid.bounding, ray)

\* The part of C27 about the value returned: a group whose box the ray
\* does not meet returns (None, None, None).
C27_MissedBoxIsNoHit ==
    (pc = "prune" /\ result.called /\ ~MeetsBox(solid.bounding, ray))
        => result.found = <<NoneType, None, NoneV>>

----------------------------------------------------------------------------

-----------------------------------------------------------------------------
(* C30: FuzzySphere against Sphere *)

\* The call on the solid is over: it returned or raised.
FuzzyDone == pc = "fuzzy" /\ render.pc = "done"

\* C30: FuzzySphere.intersection returns, with the hit or no-hit outcome
\* and the distance that Sphere.intersection gives for a sphere with the
\* same centre and radius.
C30_SameAsSphere ==
    (FuzzyDone /\ solid.kind = "FuzzySphere")
        => /\ result.raised = "None"
           /\ result.distance
                = Sphere_intersection(SphereOf(solid), ray,
                                      render.compute_normal)[1]

\* What the call on a FuzzySphere does: it raises RecursionError, for every
\* ray.
C30_FuzzyRecurses ==
    (FuzzyDone /\ solid.kind = "FuzzySphere")
        => result.raised = "RecursionError"

\* The call on a Sphere returns Sphere._intersection's pair.
C30_SphereReturns ==
    (FuzzyDone /\ solid.kind = "Sphere")
        => /\ result.raised = "None"
           /\ <<result.distance, result.normal>>
                = Sphere_intersection(solid, ray, render.compute_normal)

====
